---- MODULE Spec2Model ----
(***************************************************************************)
(* A model of quantum-sim: the field lattice (QuantumField.js), the        *)
(* analysis models (Consciousness.js), the particle pool                   *)
(* (ParticleSystem.js) and the fixed-timestep driver (main.js).            *)
(*                                                                         *)
(* Real numbers are fixed-point integers in hundredths (0.4 is 40); times  *)
(* are integer milliseconds; the spawn accumulator is kept in units of     *)
(* 1e-5 pairs so that rate * dt is exact.  Float32 rounding, NaN and       *)
(* Infinity are outside the model.  Math.random() is a cursor into a       *)
(* stream of values the caller of an operation chooses.  The lattice size  *)
(* N and the pool capacity MAX are scaled down.  The colour and size       *)
(* arrays of the pool are write-only for the simulation and are left out.  *)
(***************************************************************************)
EXTENDS Integers, Sequences, FiniteSets, TLC

VARIABLES field, particles, consciousness, guiState,
          accumDt, simRunning, consFrameAcc, frameCount,
          pc, steps, hist, ops, frames, shapeConstraint, applied, injected

vars == <<field, particles, consciousness, guiState,
          accumDt, simRunning, consFrameAcc, frameCount,
          pc, steps, hist, ops, frames, shapeConstraint, applied, injected>>

---------------------------------------------------------------------------
(* Fixed-point arithmetic *)

\* the real number n/d in hundredths (n >= 0, d > 0)
Q(n, d) == (n * 100) \div d

\* division rounding toward zero, as (x | 0) and sign-symmetric like floats
TDiv(a, b) == IF a >= 0 THEN a \div b ELSE -((-a) \div b)

\* product of two values in hundredths
Mul(a, b) == TDiv(a * b, 100)

\* x * dt for x in hundredths (per second) and dt in milliseconds
MulDt(x, dt) == TDiv(x * dt, 1000)

Min(a, b) == IF a < b THEN a ELSE b
Max(a, b) == IF a > b THEN a ELSE b
Abs(a) == IF a < 0 THEN -a ELSE a

SeqToSet(s) == {s[i] : i \in 1..Len(s)}

---------------------------------------------------------------------------
(* Lattice *)

N == 3
N2 == N * N
N3 == N * N * N
WORLD_RANGE == 14
VEV == Q(8, 10)

Cells == 0..(N3 - 1)

---------------------------------------------------------------------------
(* Math.random(), Math.cos, Math.sin, Math.acos, Math.log at the sampled   *)
(* values.  A stream is a finite pattern repeated for ever; the k-th call  *)
(* of an operation returns Rand(s, k).                                     *)

Streams == { <<25>>, <<90, 50, 75, 0>> }

Rand(s, k) == s[(k % Len(s)) + 1]

\* cos(2 pi r) and sin(2 pi r)
CosTurn(r) == CASE r = 0 -> 100 [] r = 25 -> 0 [] r = 50 -> -100
                [] r = 75 -> 0 [] r = 90 -> 81
SinTurn(r) == CASE r = 0 -> 0 [] r = 25 -> 100 [] r = 50 -> 0
                [] r = 75 -> -100 [] r = 90 -> -59

\* cos(acos(2r - 1)) and sin(acos(2r - 1))
CosAcos(r) == 2 * r - 100
SinAcos(r) == CASE r = 0 -> 0 [] r = 25 -> 87 [] r = 50 -> 100
                [] r = 75 -> 87 [] r = 90 -> 60

\* sqrt(-2 ln u), u > 0
SqrtLog(u) == CASE u = 25 -> 167 [] u = 50 -> 118 [] u = 75 -> 76 [] u = 90 -> 46

---------------------------------------------------------------------------
(* ParticleSystem.js: the particle pool *)

MAX == 6
MAX_FLASHES == 2
\* an annihilation radius of a hundredth of a world unit
RadiusTiny == Q(1, 100)
ANNIHILATION_RADIUS == Q(3, 2)
DRAG == Q(99, 100)

TYPE_INACTIVE == 0
TYPE_ELECTRON == 1
TYPE_POSITRON == 2
TYPE_PHOTON == 3
TYPE_HIGGS == 4
TYPE_ANTI_HIGGS == 5

Slots == 0..(MAX - 1)

\* constructor: every slot free (MAX-1 pushed first, 0 popped first),
\* relations -1, flashes aged out
ParticleSystem ==
  [ px |-> [i \in Slots |-> 0], py |-> [i \in Slots |-> 0], pz |-> [i \in Slots |-> 0],
    vx |-> [i \in Slots |-> 0], vy |-> [i \in Slots |-> 0], vz |-> [i \in Slots |-> 0],
    alpha |-> [i \in Slots |-> 0],
    type |-> [i \in Slots |-> TYPE_INACTIVE],
    age |-> [i \in Slots |-> 0],
    lifetime |-> [i \in Slots |-> 0],
    entangledWith |-> [i \in Slots |-> -1],
    pairWith |-> [i \in Slots |-> -1],
    freeList |-> [k \in 1..MAX |-> MAX - k],
    active |-> << >>,
    annihilationFlashes |->
      [k \in 1..MAX_FLASHES |-> [x |-> 0, y |-> 0, z |-> 0, age |-> 999000, intensity |-> 0]],
    flashHead |-> 0,
    spawnAccum |-> 0,
    injectionRate |-> Q(4, 1) ]

\* Set.add and Set.delete on the insertion-ordered active set
SetAdd(s, x) == IF x \in SeqToSet(s) THEN s ELSE Append(s, x)
SetDelete(s, x) == SelectSeq(s, LAMBDA y : y # x)

\* _alloc: pops the free list, -1 when it is empty
Alloc(p) ==
  IF Len(p.freeList) = 0 THEN [p |-> p, idx |-> -1]
  ELSE LET idx == p.freeList[Len(p.freeList)]
       IN [p |-> [p EXCEPT !.freeList = SubSeq(@, 1, Len(@) - 1),
                           !.active = SetAdd(@, idx)],
           idx |-> idx]

\* a _free that pushes the slot without taking it out of the active set
FreeLeavesActive(p, idx) ==
  [p EXCEPT !.type[idx] = TYPE_INACTIVE,
            !.alpha[idx] = 0,
            !.entangledWith[idx] = -1,
            !.pairWith[idx] = -1,
            !.freeList = Append(@, idx)]

\* _free
Free(p, idx) ==
  [p EXCEPT !.type[idx] = TYPE_INACTIVE,
            !.alpha[idx] = 0,
            !.entangledWith[idx] = -1,
            !.pairWith[idx] = -1,
            !.active = SetDelete(@, idx),
            !.freeList = Append(@, idx)]

\* world coordinate of the centre of grid coordinate b: (b - N/2 + 0.5) * (2W/N)
CellCentre(b) == TDiv((2 * b - N + 1) * Q(WORLD_RANGE, 1), N)

\* ((w + WORLD_RANGE) * scale) | 0  with scale = N / (2 * WORLD_RANGE)
GridCoord(w) == TDiv((w + Q(WORLD_RANGE, 1)) * N, 2 * Q(WORLD_RANGE, 1))

\* _sampleHotspot, the cell drawn at cursor k with its energy
HotspotCandidate(f, x, y, z) ==
  [energy |-> Mul(f.higgs[x + y * N + z * N2], f.higgs[x + y * N + z * N2])
              + Mul(f.electron[x + y * N + z * N2], f.electron[x + y * N + z * N2])
              + Mul(f.photon[x + y * N + z * N2], f.photon[x + y * N + z * N2]),
   bx |-> x, by |-> y, bz |-> z]

RECURSIVE HotspotLoop(_, _, _, _, _)

HotspotBetter(f, s, k, j, best, cand) ==
  HotspotLoop(f, s, k + 3, j + 1, IF cand.energy > best.energy THEN cand ELSE best)

HotspotLoop(f, s, k, j, best) ==
  IF j = 8 THEN best
  ELSE HotspotBetter(f, s, k, j, best,
                     HotspotCandidate(f, TDiv(Rand(s, k) * N, 100), TDiv(Rand(s, k + 1) * N, 100),
                                      TDiv(Rand(s, k + 2) * N, 100)))

\* _sampleHotspot: best of 8 random cells by energy (24 draws)
HotspotCentre(best) == <<CellCentre(best.bx), CellCentre(best.by), CellCentre(best.bz)>>
SampleHotspot(f, s, k) ==
  HotspotCentre(HotspotLoop(f, s, k, 0, [energy |-> -Q(1, 1), bx |-> 0, by |-> 0, bz |-> 0]))

\* _nearestCell
NearestCell(wx, wy, wz) ==
  LET x == Max(0, Min(N - 1, GridCoord(wx)))
      y == Max(0, Min(N - 1, GridCoord(wy)))
      z == Max(0, Min(N - 1, GridCoord(wz)))
  IN x + y * N + z * N2

\* the body of spawnPair's loop for one slot
SetParticle(p, idx, t, pos, vel, lifetime) ==
  [p EXCEPT !.px[idx] = pos[1], !.py[idx] = pos[2], !.pz[idx] = pos[3],
            !.vx[idx] = vel[1], !.vy[idx] = vel[2], !.vz[idx] = vel[3],
            !.type[idx] = t,
            !.age[idx] = 0,
            !.lifetime[idx] = lifetime,
            !.alpha[idx] = Q(1, 1)]

\* a failed spawnPair that keeps the slot it allocated
SpawnKeepsSlot(p, a, b) == p

\* spawnPair when an allocation failed: the slot that was allocated is freed
SpawnUndo(p, a, b) ==
  LET p1 == IF a # -1 THEN Free(p, a) ELSE p
  IN IF b # -1 THEN Free(p1, b) ELSE p1

\* a spawnPair whose second slot lives three seconds longer than its first
LinkPairOwnLifetime(p, a, b) ==
  [p EXCEPT !.pairWith[a] = b, !.pairWith[b] = a,
            !.entangledWith[a] = b, !.entangledWith[b] = a,
            !.lifetime[b] = @ + 3000]

\* spawnPair's relation fields
LinkPair(p, a, b) ==
  [p EXCEPT !.pairWith[a] = b, !.pairWith[b] = a,
            !.entangledWith[a] = b, !.entangledWith[b] = a]

\* spawnPair's two allocations
AllocTwo(p) ==
  LET ra == Alloc(p)
  IN [p |-> Alloc(ra.p).p, a |-> ra.idx, b |-> Alloc(ra.p).idx]

\* a velocity of the given speed along (sin phi cos theta, sin phi sin theta, cos phi),
\* theta = 2 pi rTheta, phi = acos(2 rPhi - 1)
Direction(speed, rTheta, rPhi) ==
  << Mul(Mul(speed, SinAcos(rPhi)), CosTurn(rTheta)),
     Mul(Mul(speed, SinAcos(rPhi)), SinTurn(rTheta)),
     Mul(speed, CosAcos(rPhi)) >>

\* c + (Math.random() - 0.5) * 0.3 on each axis, three draws from cursor k
Jittered(c, s, k) ==
  << c[1] + Mul(Rand(s, k) - Q(1, 2), Q(3, 10)),
     c[2] + Mul(Rand(s, k + 1) - Q(1, 2), Q(3, 10)),
     c[3] + Mul(Rand(s, k + 2) - Q(1, 2), Q(3, 10)) >>

\* spawnPair after the hotspot c and the allocations al: on success speed,
\* theta, phi, lifetime and three jitters per slot are drawn from cursor k
SpawnPairAt(al, c, typeA, typeB, s, k) ==
  IF al.a = -1 \/ al.b = -1
  THEN [p |-> SpawnUndo(al.p, al.a, al.b), k |-> k]
  ELSE LET vel == Direction(Q(3, 2) + Mul(Rand(s, k), Q(2, 1)), Rand(s, k + 1), Rand(s, k + 2))
           lifetime == 1000 + 30 * Rand(s, k + 3)
           pa == SetParticle(al.p, al.a, typeA, Jittered(c, s, k + 4), vel, lifetime)
       IN [p |-> LinkPair(SetParticle(pa, al.b, typeB, Jittered(c, s, k + 7),
                                      <<-vel[1], -vel[2], -vel[3]>>, lifetime),
                          al.a, al.b),
           k |-> k + 10]

\* spawnPair(typeA, typeB): 24 draws for the hotspot, 10 more on success
SpawnPair(p, f, typeA, typeB, s, k) ==
  SpawnPairAt(AllocTwo(p), SampleHotspot(f, s, k), typeA, typeB, s, k + 24)

\* _spawnAnnihilationPhotons, the body of the loop for the slot allocated
SetPhoton(p, idx, x, y, z, s, k) ==
  LET vel == Direction(Q(3, 1) + Mul(Rand(s, k + 2), Q(2, 1)), Rand(s, k), Rand(s, k + 1))
  IN [SetParticle(p, idx, TYPE_PHOTON, <<x, y, z>>, vel, 400 + 4 * Rand(s, k + 3))
        EXCEPT !.entangledWith[idx] = -1, !.pairWith[idx] = -1]

RECURSIVE PhotonLoop(_, _, _, _, _, _, _, _)

\* _spawnAnnihilationPhotons, one iteration given the allocation r
PhotonAt(r, p, x, y, z, s, k, j, ids) ==
  IF r.idx = -1 THEN [p |-> p, k |-> k, ids |-> ids]
  ELSE PhotonLoop(SetPhoton(r.p, r.idx, x, y, z, s, k), x, y, z, s, k + 4, j + 1,
                  Append(ids, r.idx))

PhotonLoop(p, x, y, z, s, k, j, ids) ==
  IF j = 3 THEN [p |-> p, k |-> k, ids |-> ids]
  ELSE PhotonAt(Alloc(p), p, x, y, z, s, k, j, ids)

\* a photon loop that runs twice instead of three times
SpawnTwoPhotons(p, x, y, z, s, k) == PhotonLoop(p, x, y, z, s, k, 1, << >>)

\* _spawnAnnihilationPhotons: up to three photons, stops at the first
\* failed allocation; ids lists the slots it allocated
SpawnAnnihilationPhotons(p, x, y, z, s, k) == PhotonLoop(p, x, y, z, s, k, 0, << >>)

\* an _emitFlash that writes one record for each partner
EmitFlashPerPartner(p, x, y, z) ==
  [p EXCEPT !.annihilationFlashes[(p.flashHead % MAX_FLASHES) + 1] =
               [x |-> x, y |-> y, z |-> z, age |-> 0, intensity |-> Q(1, 1)],
            !.annihilationFlashes[((p.flashHead + 1) % MAX_FLASHES) + 1] =
               [x |-> x, y |-> y, z |-> z, age |-> 0, intensity |-> Q(1, 1)],
            !.flashHead = @ + 2]

\* _emitFlash
EmitFlash(p, x, y, z) ==
  [p EXCEPT !.annihilationFlashes[(p.flashHead % MAX_FLASHES) + 1] =
               [x |-> x, y |-> y, z |-> z, age |-> 0, intensity |-> Q(1, 1)],
            !.flashHead = @ + 1]

\* _higgsGrad: centred difference at the cell clamped to [1, N-2]
HiggsGrad(f, wx, wy, wz) ==
  LET gx == Max(1, Min(N - 2, GridCoord(wx)))
      gy == Max(1, Min(N - 2, GridCoord(wy)))
      gz == Max(1, Min(N - 2, GridCoord(wz)))
      h == f.higgs
  IN << TDiv(h[(gx + 1) + gy * N + gz * N2] - h[(gx - 1) + gy * N + gz * N2], 2),
        TDiv(h[gx + (gy + 1) * N + gz * N2] - h[gx + (gy - 1) * N + gz * N2], 2),
        TDiv(h[gx + gy * N + (gz + 1) * N2] - h[gx + gy * N + (gz - 1) * N2], 2) >>

\* 1.0 pair in the units of spawnAccum (injectionRate in hundredths * dt in ms)
AccumOne == Q(1, 1) * 1000

\* update, the types injected for the draw r
InjectTypes(r) ==
  IF r < Q(1, 2) THEN <<TYPE_ELECTRON, TYPE_POSITRON>>
  ELSE IF r < Q(8, 10) THEN <<TYPE_HIGGS, TYPE_ANTI_HIGGS>>
  ELSE <<TYPE_ELECTRON, TYPE_POSITRON>>

RECURSIVE InjectLoop(_, _, _, _)

InjectNext(sp, f, s) ==
  [InjectLoop(sp.p, f, s, sp.k) EXCEPT !.n = @ + 1]

\* an injection that spawns at most one pair per call
InjectAtMostOnce(p, f, s, k) ==
  IF p.spawnAccum < AccumOne THEN [p |-> p, k |-> k, n |-> 0]
  ELSE [p |-> SpawnPair([p EXCEPT !.spawnAccum = @ - AccumOne], f,
                        InjectTypes(Rand(s, k))[1], InjectTypes(Rand(s, k))[2], s, k + 1).p,
        k |-> SpawnPair([p EXCEPT !.spawnAccum = @ - AccumOne], f,
                        InjectTypes(Rand(s, k))[1], InjectTypes(Rand(s, k))[2], s, k + 1).k,
        n |-> 1]

\* update, the injection loop: one spawnPair per whole pair accumulated; n
\* counts the spawnPair calls
InjectLoop(p, f, s, k) ==
  IF p.spawnAccum < AccumOne THEN [p |-> p, k |-> k, n |-> 0]
  ELSE InjectNext(SpawnPair([p EXCEPT !.spawnAccum = @ - AccumOne], f,
                            InjectTypes(Rand(s, k))[1], InjectTypes(Rand(s, k))[2], s, k + 1),
                  f, s)

\* periodic boundary wrap: one world width at most
Wrap(x) ==
  LET W == Q(WORLD_RANGE, 1)
      x1 == IF x > W THEN x - 2 * W ELSE x
  IN IF x1 < -W THEN x1 + 2 * W ELSE x1

\* update, the velocity of slot i after the gradient force g and drag
Accelerate(v, g, dt) == Mul(v - MulDt(Mul(g, Q(3, 10)), dt), DRAG)

\* update, one active slot with its new velocity: age, move, wrap, fade
MoveWith(p, i, dt, vel) ==
  [p EXCEPT !.age[i] = @ + dt,
            !.vx[i] = vel[1], !.vy[i] = vel[2], !.vz[i] = vel[3],
            !.px[i] = Wrap(@ + MulDt(vel[1], dt)),
            !.py[i] = Wrap(@ + MulDt(vel[2], dt)),
            !.pz[i] = Wrap(@ + MulDt(vel[3], dt)),
            !.alpha[i] = IF p.lifetime[i] - (p.age[i] + dt) < 500
                         THEN Max(0, TDiv(p.lifetime[i] - (p.age[i] + dt), 5)) ELSE @]

\* the velocity of slot i under the Higgs gradient g
NewVelocity(p, i, dt, g) ==
  <<Accelerate(p.vx[i], g[1], dt), Accelerate(p.vy[i], g[2], dt), Accelerate(p.vz[i], g[3], dt)>>

\* update, one active slot: age, gradient force, drag, move, wrap, fade
MoveParticle(p, f, i, dt) ==
  MoveWith(p, i, dt, NewVelocity(p, i, dt, HiggsGrad(f, p.px[i], p.py[i], p.pz[i])))

\* update, natural death: the entry pushed for a slot past its lifetime
NaturalDeath(p, i) ==
  IF p.entangledWith[i] # -1 /\ p.entangledWith[i] \in SeqToSet(p.active)
  THEN [a |-> i, b |-> p.entangledWith[i], doFlash |-> FALSE]
  ELSE [a |-> i, b |-> -1, doFlash |-> FALSE]

\* update, annihilation check: squared distance against the squared radius
WithinRadius(p, i, pair) ==
  (p.px[i] - p.px[pair]) * (p.px[i] - p.px[pair])
  + (p.py[i] - p.py[pair]) * (p.py[i] - p.py[pair])
  + (p.pz[i] - p.pz[pair]) * (p.pz[i] - p.pz[pair])
  < ANNIHILATION_RADIUS * ANNIHILATION_RADIUS

\* update, the entries slot i pushes after it has moved
Entries(p, i) ==
  IF p.age[i] >= p.lifetime[i] THEN << NaturalDeath(p, i) >>
  ELSE IF /\ p.pairWith[i] # -1
          /\ p.pairWith[i] > i
          /\ p.pairWith[i] \in SeqToSet(p.active)
          /\ WithinRadius(p, i, p.pairWith[i])
       THEN << [a |-> i, b |-> p.pairWith[i], doFlash |-> TRUE] >>
       ELSE << >>

RECURSIVE MotionLoop(_, _, _, _, _, _)

\* update, the end of an iteration of the loop: p1 is the pool after slot
\* order[j] has moved
MotionNext(p1, f, order, j, dt, toAnnihilate) ==
  MotionLoop(p1, f, order, j + 1, dt, toAnnihilate \o Entries(p1, order[j]))

\* update, the loop over the active set in insertion order
MotionLoop(p, f, order, j, dt, toAnnihilate) ==
  IF j > Len(order) THEN [p |-> p, toAnnihilate |-> toAnnihilate]
  ELSE IF p.type[order[j]] = TYPE_INACTIVE
       THEN MotionLoop(p, f, order, j + 1, dt, toAnnihilate)
       ELSE MotionNext(MoveParticle(p, f, order[j], dt), f, order, j, dt, toAnnihilate)

\* a boost that adds without the bound at 1
BoostUnbounded(coh, ci) == [coh EXCEPT ![ci] = @ + Q(4, 10)]

\* a boost that overwrites the coherence instead of adding to it
BoostOverwrites(coh, ci) == [coh EXCEPT ![ci] = Q(4, 10)]

\* update, the boost of the coherence of the cell nearest the midpoint
BoostCoherence(coh, ci) == [coh EXCEPT ![ci] = Min(Q(1, 1), @ + Q(4, 10))]

\* a processing step that frees a and forgets its partner
FreeOnlyA(p, a, b) == Free(p, a)

\* update, the two frees that end the processing of an entry
FreePair(p, a, b) ==
  IF b # -1 /\ b \in SeqToSet(Free(p, a).active) THEN Free(Free(p, a), b) ELSE Free(p, a)

\* update, the midpoint of an entry (the position of a when there is no b)
Midpoint(p, a, b) ==
  << TDiv(p.px[a] + (IF b # -1 THEN p.px[b] ELSE p.px[a]), 2),
     TDiv(p.py[a] + (IF b # -1 THEN p.py[b] ELSE p.py[a]), 2),
     TDiv(p.pz[a] + (IF b # -1 THEN p.pz[b] ELSE p.pz[a]), 2) >>

RECURSIVE ProcessLoop(_, _, _, _, _, _, _)

\* update, a forced annihilation after its photons ph were spawned at the
\* midpoint m: flash, coherence boost, the two frees.  log keeps, for every
\* forced annihilation processed, its slots, the cell boosted, the photon
\* slots allocated, the number of free slots it found, its midpoint, the
\* flash head it found and the flash record as _emitFlash left it
ProcessPhotons(p, coh, s, toAnnihilate, j, log, m, ph) ==
  ProcessLoop(FreePair(EmitFlash(ph.p, m[1], m[2], m[3]), toAnnihilate[j].a, toAnnihilate[j].b),
              BoostCoherence(coh, NearestCell(m[1], m[2], m[3])),
              s, ph.k, toAnnihilate, j + 1,
              Append(log, [a |-> toAnnihilate[j].a, b |-> toAnnihilate[j].b,
                           cell |-> NearestCell(m[1], m[2], m[3]),
                           photons |-> ph.ids, free |-> Len(p.freeList),
                           m |-> m, head |-> ph.p.flashHead,
                           flash |-> EmitFlash(ph.p, m[1], m[2], m[3])
                                       .annihilationFlashes[(ph.p.flashHead % MAX_FLASHES) + 1]]))

\* update, a forced annihilation: the photons are spawned first
ProcessForced(p, coh, s, k, toAnnihilate, j, log, m) ==
  ProcessPhotons(p, coh, s, toAnnihilate, j, log, m,
                 SpawnAnnihilationPhotons(p, m[1], m[2], m[3], s, k))

\* a processing that treats a natural death like an annihilation
ProcessLoopFlashAll(p, coh, s, k, toAnnihilate, j, log) ==
  IF j > Len(toAnnihilate) THEN [p |-> p, coh |-> coh, k |-> k, log |-> log]
  ELSE IF toAnnihilate[j].a \notin SeqToSet(p.active)
       THEN ProcessLoop(p, coh, s, k, toAnnihilate, j + 1, log)
       ELSE ProcessForced(p, coh, s, k, toAnnihilate, j, log,
                          Midpoint(p, toAnnihilate[j].a, toAnnihilate[j].b))

\* update, the processing of toAnnihilate
ProcessLoop(p, coh, s, k, toAnnihilate, j, log) ==
  IF j > Len(toAnnihilate) THEN [p |-> p, coh |-> coh, k |-> k, log |-> log]
  ELSE IF toAnnihilate[j].a \notin SeqToSet(p.active)
       THEN ProcessLoop(p, coh, s, k, toAnnihilate, j + 1, log)
       ELSE IF toAnnihilate[j].doFlash
            THEN ProcessForced(p, coh, s, k, toAnnihilate, j, log,
                               Midpoint(p, toAnnihilate[j].a, toAnnihilate[j].b))
            ELSE ProcessLoop(FreePair(p, toAnnihilate[j].a, toAnnihilate[j].b), coh, s, k,
                             toAnnihilate, j + 1, log)

\* update, the ageing of the flash ring
AgeFlashes(p, dt) ==
  [p EXCEPT !.annihilationFlashes =
     [n \in 1..MAX_FLASHES |->
        IF p.annihilationFlashes[n].age < 2000
        THEN [p.annihilationFlashes[n] EXCEPT !.age = @ + dt]
        ELSE p.annihilationFlashes[n]]]

\* update after its processing pr: the flashes age; toAnnihilate and log are
\* what the call collected
UpdateEnd(pr, toAnnihilate, dt) ==
  [p |-> AgeFlashes(pr.p, dt), coh |-> pr.coh, toAnnihilate |-> toAnnihilate, log |-> pr.log]

\* update after its motion loop mv
UpdateProcess(mv, f, dt, s, k) ==
  UpdateEnd(ProcessLoop(mv.p, f.orchCoherence, s, k, mv.toAnnihilate, 1, << >>),
            mv.toAnnihilate, dt)

\* update after its injection inj
UpdateMove(inj, f, dt, s) ==
  UpdateProcess(MotionLoop(inj.p, f, inj.p.active, 1, dt, << >>), f, dt, s, inj.k)

\* ParticleSystem.update(dt)
Update(p, f, dt, s) ==
  UpdateMove(InjectLoop([p EXCEPT !.spawnAccum = @ + p.injectionRate * dt], f, s, 0), f, dt, s)

\* the spawnPair calls of update(dt)
UpdateInjects(p, f, dt, s) ==
  InjectLoop([p EXCEPT !.spawnAccum = @ + p.injectionRate * dt], f, s, 0).n

\* the spawnPair calls and the injectionRate * dt of the updates so far
Injected(inj, p, f, dt, s) ==
  [attempts |-> inj.attempts + UpdateInjects(p, f, dt, s),
   amount |-> inj.amount + p.injectionRate * dt]

\* allDead
AllDead(p) == Len(p.active) = 0

---------------------------------------------------------------------------
(* QuantumField.js: the field lattice *)

\* JavaScript's %, which takes the sign of the dividend
JsMod(a, n) == IF a >= 0 THEN a % n ELSE -((-a) % n)

\* an index helper that clamps to the lattice edge instead of wrapping
IdxClamps(x, y, z) ==
  Max(0, Min(N - 1, x)) + Max(0, Min(N - 1, y)) * N + Max(0, Min(N - 1, z)) * N2

\* idx: periodic wrap of any integer coordinates
Idx(x, y, z) ==
  LET xi == JsMod(JsMod(x, N) + N, N)
      yi == JsMod(JsMod(y, N) + N, N)
      zi == JsMod(JsMod(z, N) + N, N)
  IN xi + yi * N + zi * N2

\* coords
Coords(i) ==
  LET z == i \div N2
      y == (i - z * N2) \div N
      x == i - y * N - z * N2
  IN <<x, y, z>>

\* the (x, y, z) the j-th iteration of a nested x, y, z loop visits
LoopCoords(j) == <<j \div N2, (j \div N) % N, j % N>>

RECURSIVE NextNonZero(_, _)
NextNonZero(s, k) == IF Rand(s, k) # 0 THEN k ELSE NextNonZero(s, k + 1)

\* _gauss at cursor k: draws until u is not 0, then until v is not 0;
\* g is sqrt(-2 ln u) * cos(2 pi v), k the cursor after it
Gauss(s, k) ==
  LET ku == NextNonZero(s, k)
      kv == NextNonZero(s, ku + 1)
  IN [g |-> Mul(SqrtLog(Rand(s, ku)), CosTurn(Rand(s, kv))), k |-> kv + 1]

\* _buildHeartField at the lattice sizes of the model: the cells with
\* surface proximity above 0.05, their proximity, and the other interior cells
HeartSurfaceCells ==
  CASE N = 3 -> <<10, 12, 14, 16>>
    [] N = 4 -> <<21, 22, 25, 26, 37, 38, 41, 42>>
    [] OTHER -> << >>
HeartInteriorCells ==
  CASE N = 3 -> <<13>>
    [] OTHER -> << >>
HeartSurface(i) ==
  CASE N = 3 -> 31
    [] N = 4 -> (IF i \in {21, 22, 37, 38} THEN 78 ELSE 71)
    [] OTHER -> 0

\* Math.sin(i * 0.17) and Math.cos(i * 0.23) for i = 0..63
Sin017(i) ==
  << 0, 17, 33, 49, 63, 75, 85, 93, 98, 100, 99, 96, 89, 80, 69, 56, 41, 25, 8, -9, -26,
     -42, -56, -69, -81, -89, -96, -99, -100, -98, -93, -85, -75, -62, -48, -33, -16, 1,
     18, 34, 49, 63, 76, 86, 93, 98, 100, 99, 95, 89, 80, 69, 55, 40, 24, 7, -10, -26,
     -42, -57, -70, -81, -90, -96 >>[i + 1]
Cos023(i) ==
  << 100, 97, 90, 77, 61, 41, 19, -4, -27, -48, -67, -82, -93, -99, -100, -95, -86, -72,
     -54, -34, -11, 12, 34, 55, 72, 86, 95, 100, 99, 93, 82, 66, 47, 26, 3, -19, -41, -61,
     -77, -90, -97, -100, -97, -89, -77, -60, -40, -18, 4, 27, 48, 67, 82, 93, 99, 100,
     95, 86, 72, 54, 33, 11, -12, -35 >>[i + 1]

\* Math.exp(-r2 / 4) for r2 = 0..12
ExpQuarter(r2) == << 100, 78, 61, 47, 37, 29, 22, 17, 14, 11, 8, 6, 5 >>[r2 + 1]

\* Math.sin(2 pi k / N) and Math.cos(2 pi k / N) at the lattice sizes of the model
SinN(k) ==
  CASE N = 3 -> << 0, 87, -87 >>[(k % N) + 1]
    [] N = 4 -> << 0, 100, 0, -100 >>[(k % N) + 1]
    [] OTHER -> 0
CosN(k) ==
  CASE N = 3 -> << 100, -50, -50 >>[(k % N) + 1]
    [] N = 4 -> << 100, 0, -100, 0 >>[(k % N) + 1]
    [] OTHER -> 100

\* init, the fills that precede the switch
InitFill(f) ==
  [f EXCEPT !.higgs = [i \in Cells |-> VEV],
            !.electron = [i \in Cells |-> 0],
            !.photon = [i \in Cells |-> 0],
            !.higgsVel = [i \in Cells |-> 0],
            !.electronVel = [i \in Cells |-> 0],
            !.photonVel = [i \in Cells |-> 0]]

RECURSIVE InitLoop(_, _, _, _), InitBigbang(_, _, _, _), InitHiggs(_, _, _, _),
          InitAntimatter(_, _, _, _)

\* init('loop')
InitLoop(f, s, k, i) ==
  IF i = N3 THEN f
  ELSE LET g1 == Gauss(s, k)
           g2 == Gauss(s, g1.k)
           g3 == Gauss(s, g2.k)
       IN InitLoop([f EXCEPT !.higgs[i] = VEV + Mul(g1.g, Q(5, 100)),
                             !.electron[i] = Mul(g2.g, Q(1, 10)),
                             !.photon[i] = Mul(g3.g, Q(5, 100))],
                   s, g3.k, i + 1)

\* init('bigbang')
InitBigbang(f, s, k, j) ==
  IF j = N3 THEN f
  ELSE LET c == LoopCoords(j)
           cx == N \div 2
           r2 == (c[1] - cx) * (c[1] - cx) + (c[2] - cx) * (c[2] - cx)
                 + (c[3] - cx) * (c[3] - cx)
           env == ExpQuarter(r2)
           i == Idx(c[1], c[2], c[3])
           g1 == Gauss(s, k)
           g2 == Gauss(s, g1.k)
           g3 == Gauss(s, g2.k)
           g4 == Gauss(s, g3.k)
           g5 == Gauss(s, g4.k)
           g6 == Gauss(s, g5.k)
       IN InitBigbang([f EXCEPT !.higgs[i] = VEV + Mul(env, Mul(g1.g, Q(8, 10)) + Q(1, 1)),
                                !.electron[i] = Mul(Mul(env, g2.g), Q(12, 10)),
                                !.photon[i] = Mul(Mul(env, g3.g), Q(8, 10)),
                                !.higgsVel[i] = Mul(Mul(g4.g, Q(3, 10)), env),
                                !.electronVel[i] = Mul(Mul(g5.g, Q(5, 10)), env),
                                !.photonVel[i] = Mul(Mul(g6.g, Q(3, 10)), env)],
                      s, g6.k, j + 1)

\* init('higgs')
InitHiggs(f, s, k, i) ==
  IF i = N3 THEN f
  ELSE LET g1 == Gauss(s, k)
           g2 == Gauss(s, g1.k)
       IN InitHiggs([f EXCEPT !.higgs[i] = VEV + Mul(Sin017(i), Q(6, 10)),
                              !.higgsVel[i] = Mul(Cos023(i), Q(15, 100)),
                              !.electron[i] = Mul(g1.g, Q(2, 100)),
                              !.photon[i] = Mul(g2.g, Q(1, 100))],
                    s, g2.k, i + 1)

\* init('consciousness'): standing waves with kx = kz = 2 pi 2 / N, ky = 2 pi 3 / N
InitConsciousness(f) ==
  [f EXCEPT
     !.electron = [i \in Cells |->
        LET c == Coords(i)
        IN Mul(Mul(Mul(SinN(2 * c[1]), CosN(3 * c[2])), SinN(2 * c[3])), Q(8, 10))],
     !.higgs = [i \in Cells |->
        LET c == Coords(i) IN VEV + Mul(CosN(2 * c[1] + 3 * c[2]), Q(2, 10))],
     !.orchCoherence = [i \in Cells |->
        LET c == Coords(i)
        IN Q(5, 10) + Mul(Mul(SinN(2 * c[1]), SinN(3 * c[2])), Q(4, 10))]]

\* init('antimatter')
InitAntimatter(f, s, k, i) ==
  IF i = N3 THEN f
  ELSE LET phase == IF i % 4 < 2 THEN 1 ELSE -1
           g1 == Gauss(s, k)
           g2 == Gauss(s, g1.k)
       IN InitAntimatter([f EXCEPT !.electron[i] = phase * (Q(3, 10) + Mul(g1.g, Q(1, 10))),
                                   !.higgs[i] = VEV + Mul(g2.g, Q(5, 100)),
                                   !.electronVel[i] = -phase * Q(5, 100)],
                         s, g2.k, i + 1)

Modes == {"loop", "bigbang", "higgs", "consciousness", "antimatter"}

\* init(mode)
FieldInit(f, mode, s) ==
  LET f0 == InitFill(f)
  IN CASE mode = "loop" -> InitLoop(f0, s, 0, 0)
       [] mode = "bigbang" -> InitBigbang(f0, s, 0, 0)
       [] mode = "higgs" -> InitHiggs(f0, s, 0, 0)
       [] mode = "consciousness" -> InitConsciousness(f0)
       [] mode = "antimatter" -> InitAntimatter(f0, s, 0, 0)
       [] OTHER -> f0

\* constructor: zeroed arrays, heart strength 0, then init('loop')
QuantumField(s) ==
  FieldInit([ higgs |-> [i \in Cells |-> 0], electron |-> [i \in Cells |-> 0],
              photon |-> [i \in Cells |-> 0],
              higgsVel |-> [i \in Cells |-> 0], electronVel |-> [i \in Cells |-> 0],
              photonVel |-> [i \in Cells |-> 0],
              phi |-> [i \in Cells |-> 0],
              orchCoherence |-> [i \in Cells |-> 0],
              orchFlash |-> [i \in Cells |-> 0],
              heartStrength |-> 0, shapeMask |-> "null" ],
            "loop", s)

\* _laplacian: six periodic neighbours minus six times the centre
Laplacian(a, x, y, z) ==
  LET c == a[Idx(x, y, z)]
      xp == a[Idx(x + 1, y, z)]
      xm == a[Idx(x - 1, y, z)]
      yp == a[Idx(x, y + 1, z)]
      ym == a[Idx(x, y - 1, z)]
      zp == a[Idx(x, y, z + 1)]
      zm == a[Idx(x, y, z - 1)]
  IN xp + xm + yp + ym + zp + zm - 6 * c

\* the three acceleration laws of update
AccHiggs(lap, h, e) ==
  Mul(Q(3, 10), lap) - Mul(Mul(h - VEV, Mul(h, h) - Mul(VEV, VEV)), Q(4, 10))
  - Mul(Mul(Q(1, 10), e), e)
AccElectron(lap, h, e) ==
  Mul(Q(5, 10), lap) - Mul(Q(2, 10), e) - Mul(Mul(Q(3, 10), h), e)
AccPhoton(lap, pv, ev) ==
  Mul(Q(1, 1), lap) - Mul(Q(5, 100), pv) + Mul(Q(2, 10), ev)

\* update, steps 1 and 3: the accelerations of every cell at the amplitudes
\* and velocities of f
Accelerations(f) ==
  [ h |-> [i \in Cells |->
             LET c == Coords(i)
             IN AccHiggs(Laplacian(f.higgs, c[1], c[2], c[3]), f.higgs[i], f.electron[i])],
    e |-> [i \in Cells |->
             LET c == Coords(i)
             IN AccElectron(Laplacian(f.electron, c[1], c[2], c[3]), f.higgs[i], f.electron[i])],
    p |-> [i \in Cells |->
             LET c == Coords(i)
             IN AccPhoton(Laplacian(f.photon, c[1], c[2], c[3]), f.photonVel[i],
                          f.electronVel[i])] ]

\* acc * (0.5 * dt * dt)
MulDt2Half(a, dt) == TDiv(MulDt(MulDt(a, dt), dt), 2)

\* (a_old + a_new) * (0.5 * dt)
MulDtHalf(a, dt) == TDiv(MulDt(a, dt), 2)

\* update, step 2: x += v dt + a dt^2 / 2 in every cell
VerletPositions(f, acc, dt) ==
  [f EXCEPT !.higgs = [i \in Cells |-> @[i] + MulDt(f.higgsVel[i], dt) + MulDt2Half(acc.h[i], dt)],
            !.electron = [i \in Cells |->
                            @[i] + MulDt(f.electronVel[i], dt) + MulDt2Half(acc.e[i], dt)],
            !.photon = [i \in Cells |->
                          @[i] + MulDt(f.photonVel[i], dt) + MulDt2Half(acc.p[i], dt)]]

\* a velocity half-step that takes the old accelerations for the new ones
VerletVelocitiesStale(f, acc, dt) ==
  [f EXCEPT !.higgsVel = [i \in Cells |-> @[i] + MulDtHalf(acc.h[i] + acc.h[i], dt)],
            !.electronVel = [i \in Cells |-> @[i] + MulDtHalf(acc.e[i] + acc.e[i], dt)],
            !.photonVel = [i \in Cells |-> @[i] + MulDtHalf(acc.p[i] + acc.p[i], dt)]]

\* update, step 3: v += (a_old + a_new) dt / 2, a_new at the advanced amplitudes
VerletVelocities(f, acc, dt) ==
  LET new == Accelerations(f)
  IN [f EXCEPT !.higgsVel = [i \in Cells |-> @[i] + MulDtHalf(acc.h[i] + new.h[i], dt)],
               !.electronVel = [i \in Cells |-> @[i] + MulDtHalf(acc.e[i] + new.e[i], dt)],
               !.photonVel = [i \in Cells |-> @[i] + MulDtHalf(acc.p[i] + new.p[i], dt)]]

RECURSIVE HeartSurfaceLoop(_, _, _, _, _), HeartInteriorLoop(_, _, _, _, _)

\* update, the heart attractor's surface cells: one draw each, two more when pulled
HeartSurfaceLoop(f, dt, s, k, ci) ==
  IF ci > Len(HeartSurfaceCells) THEN [f |-> f, k |-> k]
  ELSE IF Rand(s, k) > f.heartStrength THEN HeartSurfaceLoop(f, dt, s, k + 1, ci + 1)
  ELSE LET i == HeartSurfaceCells[ci]
           surf == HeartSurface(i)
           hs == f.heartStrength
           drift == MulDt(Mul(Mul(Mul(surf, Q(7, 10)) - f.electron[i], hs), Q(5, 10)), dt)
           kickE == Mul(Mul(Mul(Rand(s, k + 1) - Q(1, 2), surf), hs), Q(6, 10))
           kickP == Mul(Mul(Mul(Rand(s, k + 2) - Q(1, 2), surf), hs), Q(2, 10))
       IN HeartSurfaceLoop([f EXCEPT !.electronVel[i] = @ + drift + kickE,
                                     !.photonVel[i] = @ + kickP],
                           dt, s, k + 3, ci + 1)

\* update, the heart attractor's interior cells
HeartInteriorLoop(f, dt, s, k, ci) ==
  IF ci > Len(HeartInteriorCells) THEN [f |-> f, k |-> k]
  ELSE IF Rand(s, k) > Mul(f.heartStrength, Q(35, 100))
       THEN HeartInteriorLoop(f, dt, s, k + 1, ci + 1)
  ELSE LET i == HeartInteriorCells[ci]
       IN HeartInteriorLoop(
            [f EXCEPT !.electronVel[i] = @ + MulDt(Mul(Q(15, 100) - f.electron[i], Q(25, 100)), dt)],
            dt, s, k + 1, ci + 1)

\* a heart attractor that runs its two loops whatever the strength
HeartAttractorUnguarded(f, dt, s) ==
  HeartInteriorLoop(HeartSurfaceLoop(f, dt, s, 0, 1).f, dt, s,
                    HeartSurfaceLoop(f, dt, s, 0, 1).k, 1)

\* update, the heart attractor: the field it leaves and the number k of
\* random numbers it drew
HeartAttractorRun(f, dt, s) ==
  IF f.heartStrength > 0
  THEN HeartInteriorLoop(HeartSurfaceLoop(f, dt, s, 0, 1).f, dt, s,
                         HeartSurfaceLoop(f, dt, s, 0, 1).k, 1)
  ELSE [f |-> f, k |-> 0]

\* update, the heart attractor
HeartAttractor(f, dt, s) == HeartAttractorRun(f, dt, s).f

\* an update without its final clamp
Unclamped(v) == v

\* update, the final clamp of the amplitudes
ClampAmplitude(v) == Max(-Q(5, 1), Min(Q(5, 1), v))
ClampField(f) ==
  [f EXCEPT !.higgs = [i \in Cells |-> ClampAmplitude(@[i])],
            !.electron = [i \in Cells |-> ClampAmplitude(@[i])],
            !.photon = [i \in Cells |-> ClampAmplitude(@[i])]]

\* QuantumField.update(dt)
FieldUpdate(f, dt, s) ==
  LET acc == Accelerations(f)
      f1 == VerletPositions(f, acc, dt)
      f2 == VerletVelocities(f1, acc, dt)
  IN ClampField(HeartAttractor(f2, dt, s))

\* the number of random numbers update(dt) draws
FieldUpdateDraws(f, dt, s) ==
  HeartAttractorRun(VerletVelocities(VerletPositions(f, Accelerations(f), dt),
                                     Accelerations(f), dt), dt, s).k

\* isQuiescent: mean kinetic energy below 1e-6
IsQuiescent(f) ==
  LET RECURSIVE Sum(_)
      Sum(i) == IF i = N3 THEN 0
                ELSE f.higgsVel[i] * f.higgsVel[i] + f.electronVel[i] * f.electronVel[i]
                     + f.photonVel[i] * f.photonVel[i] + Sum(i + 1)
  IN Sum(0) * 100 < N3

---------------------------------------------------------------------------
(* Consciousness.js: the analysis models *)

\* constructor
Consciousness ==
  [ orchThreshold |-> Q(95, 100), orchGrowthRate |-> Q(8, 10),
    iitUpdateRate |-> Q(15, 100), enabled |-> TRUE ]

\* updateOrchOR, one cell: coherence + delta clamped to [0, 1]
OrchAccumulate(f, c, dt, i) ==
  LET rate == MulDt(c.orchGrowthRate, dt)
      electronActivity == Mul(f.electron[i], f.electron[i])
                          + Mul(f.electronVel[i], f.electronVel[i])
      photonOscillation == Mul(f.photon[i], f.photon[i]) + Mul(f.photonVel[i], f.photonVel[i])
      higgsDeviation == Abs(f.higgs[i] - VEV)
      delta == Mul(Mul(electronActivity, Q(6, 10)) + Mul(photonOscillation, Q(4, 10))
                   - Mul(higgsDeviation, Q(5, 10)), rate)
  IN Max(0, Min(Q(1, 1), f.orchCoherence[i] + delta))

\* a threshold test that only fires above the threshold
StrictlyAbove(coherence, threshold) == coherence > threshold

\* updateOrchOR, the threshold test
Collapses(coherence, threshold) == coherence >= threshold

\* updateOrchOR, orchFlash.fill(0)
ClearFlashes(f) == [f EXCEPT !.orchFlash = [i \in Cells |-> 0]]

\* updateOrchOR(dt)
UpdateOrchOR(f, c, dt) ==
  LET f0 == ClearFlashes(f)
      acc == [i \in Cells |-> OrchAccumulate(f0, c, dt, i)]
  IN [f0 EXCEPT
        !.orchFlash = [i \in Cells |-> IF Collapses(acc[i], c.orchThreshold) THEN 1 ELSE @[i]],
        !.orchCoherence = [i \in Cells |->
                             IF Collapses(acc[i], c.orchThreshold) THEN 0 ELSE acc[i]]]

\* Math.sqrt of a square of hundredths, in hundredths
RECURSIVE SqrtSearch(_, _, _)
SqrtSearch(x, lo, hi) ==
  IF lo >= hi THEN lo
  ELSE LET mid == (lo + hi + 1) \div 2
       IN IF mid * mid <= x THEN SqrtSearch(x, mid, hi) ELSE SqrtSearch(x, lo, mid - 1)
Sqrt(x) == SqrtSearch(x, 0, 32768)

\* updateIITPhi, the magnitude of a cell's (higgs, electron, photon) vector
Magnitude(f, i) ==
  Sqrt(f.higgs[i] * f.higgs[i] + f.electron[i] * f.electron[i] + f.photon[i] * f.photon[i])

\* updateIITPhi, the six periodic neighbours of (x, y, z)
Neighbors(x, y, z) ==
  << <<(x + 1) % N, y, z>>, <<(x - 1 + N) % N, y, z>>,
     <<x, (y + 1) % N, z>>, <<x, (y - 1 + N) % N, z>>,
     <<x, y, (z + 1) % N>>, <<x, y, (z - 1 + N) % N>> >>

\* updateIITPhi, |cosine similarity| of cells ci and ni; the epsilon added to
\* the magnitudes only keeps a zero vector from dividing by zero
Similarity(f, ci, ni) ==
  LET dotProd == f.higgs[ci] * f.higgs[ni] + f.electron[ci] * f.electron[ni]
                 + f.photon[ci] * f.photon[ni]
      den == Magnitude(f, ci) * Magnitude(f, ni)
  IN IF den = 0 THEN 0 ELSE TDiv(Abs(dotProd) * 100, den)

\* updateIITPhi
UpdateIITPhi(f, c) ==
  [f EXCEPT !.phi = [ci \in Cells |->
     LET nb == Neighbors(Coords(ci)[1], Coords(ci)[2], Coords(ci)[3])
         mi == [n \in 1..6 |-> Similarity(f, ci, nb[n][1] + nb[n][2] * N + nb[n][3] * N2)]
         sumMI == mi[1] + mi[2] + mi[3] + mi[4] + mi[5] + mi[6]
         minMI == Min(mi[1], Min(mi[2], Min(mi[3], Min(mi[4], Min(mi[5], mi[6])))))
         newPhi == TDiv(sumMI - minMI, 6)
     IN Mul(@[ci], Q(1, 1) - c.iitUpdateRate) + Mul(newPhi, c.iitUpdateRate)]]

\* an analysis step that also damps the electron velocities
AnalysisDampsField(f, c, dt) ==
  [f EXCEPT !.electronVel = [i \in Cells |-> 0]]

\* Consciousness.update(dtCompensated)
ConsciousnessUpdate(f, c, dt) ==
  IF ~c.enabled THEN f ELSE UpdateIITPhi(UpdateOrchOR(f, c, dt), c)

---------------------------------------------------------------------------
(* ShapeConstraint.js: STL parsing, column scan and blur.                  *)
(*                                                                         *)
(* An input buffer is the record of what the parsers read from it: its     *)
(* byte length, the uint32 at offset 80, the triangles of the binary       *)
(* payload and the numbers of the textual vertex records.  Coordinates are *)
(* in hundredths of a world unit; a mask value is in units of 1 / MaskOne, *)
(* which keeps MaxRounds rounds of three divisions by 3 exact.             *)

\* floor and ceiling of a / b for b > 0
FloorDiv(a, b) == a \div b
CeilDiv(a, b) == -((-a) \div b)

\* const CELL_SIZE = (2 * WORLD_RANGE) / N
CELL_SIZE == Q(2 * WORLD_RANGE, N)

\* the largest number of blur rounds the inputs ask for
MaxRounds == 2

RECURSIVE Pow(_, _)
Pow(b, e) == IF e = 0 THEN 1 ELSE b * Pow(b, e - 1)

\* the mask value 1.0
MaskOne == Pow(27, MaxRounds)

\* the corner (x, y, z) as three coordinates of a vertex array
Vtx(x, y, z) == <<x, y, z>>

\* the two triangles of a horizontal rectangle at height y; ac says whether
\* they share the diagonal from (x0, z0) to (x1, z1) or the other one
HorizontalFace(x0, x1, y, z0, z1, ac) ==
  IF ac
  THEN Vtx(x0, y, z0) \o Vtx(x1, y, z0) \o Vtx(x1, y, z1)
       \o Vtx(x0, y, z0) \o Vtx(x1, y, z1) \o Vtx(x0, y, z1)
  ELSE Vtx(x0, y, z0) \o Vtx(x1, y, z0) \o Vtx(x0, y, z1)
       \o Vtx(x1, y, z0) \o Vtx(x1, y, z1) \o Vtx(x0, y, z1)

\* the two triangles of the wall x = x
WallX(x, y0, y1, z0, z1) ==
  Vtx(x, y0, z0) \o Vtx(x, y1, z0) \o Vtx(x, y1, z1)
  \o Vtx(x, y0, z0) \o Vtx(x, y1, z1) \o Vtx(x, y0, z1)

\* the two triangles of the wall z = z
WallZ(z, x0, x1, y0, y1) ==
  Vtx(x0, y0, z) \o Vtx(x1, y0, z) \o Vtx(x1, y1, z)
  \o Vtx(x0, y0, z) \o Vtx(x1, y1, z) \o Vtx(x0, y1, z)

\* an axis-aligned box of 12 triangles, two per face
BoxMesh(x0, x1, y0, y1, z0, z1, acTop, acBottom) ==
  HorizontalFace(x0, x1, y1, z0, z1, acTop)
  \o HorizontalFace(x0, x1, y0, z0, z1, acBottom)
  \o WallX(x0, y0, y1, z0, z1) \o WallX(x1, y0, y1, z0, z1)
  \o WallZ(z0, x0, x1, y0, y1) \o WallZ(z1, x0, x1, y0, y1)

\* a binary STL file of the triangles v: 84 + 50 bytes per triangle
BinaryFile(v) ==
  [ byteLength |-> 84 + 50 * (Len(v) \div 9), count |-> Len(v) \div 9,
    tris |-> v, text |-> << >> ]

\* a text file with the vertex records v, shorter than 84 bytes when short;
\* the uint32 its characters make at offset 80 never matches its length
TextFile(v, short) ==
  [ byteLength |-> IF short THEN 60 ELSE 2000, count |-> 20000,
    tris |-> << >>, text |-> v ]

\* the unit cube, both horizontal faces split along the same diagonal
Cube == BoxMesh(0, 100, 0, 100, 0, 100, TRUE, TRUE)
\* a cube off the origin whose top and bottom are split along different diagonals
CubeMixed == BoxMesh(100, 300, 100, 300, 100, 300, TRUE, FALSE)
\* a slab twice as long in x as in y and z
Slab == BoxMesh(0, 200, 0, 100, 0, 100, FALSE, FALSE)

\* the buffers given to loadSTL
GoodBuffers ==
  { BinaryFile(Cube), BinaryFile(CubeMixed), BinaryFile(Slab),
    TextFile(Cube, FALSE),
    TextFile(Vtx(0, 0, 0) \o Vtx(100, 0, 0) \o Vtx(0, 0, 100) \o Vtx(5, 5, 5), TRUE) }
BadBuffers ==
  { [BinaryFile(Cube) EXCEPT !.byteLength = 400],
    [BinaryFile(Cube) EXCEPT !.byteLength = 60],
    [BinaryFile(Cube) EXCEPT !.count = 0, !.byteLength = 84],
    TextFile(Vtx(0, 0, 0) \o Vtx(100, 0, 0), TRUE),
    TextFile(<< >>, FALSE) }
Buffers == GoodBuffers \cup BadBuffers

\* parseBinarySTL
ParseBinarySTL(buf) ==
  IF buf.byteLength < 84 + buf.count * 50
  THEN [ok |-> FALSE, error |-> "Truncated binary STL", verts |-> << >>, count |-> 0]
  ELSE [ok |-> TRUE, error |-> "", verts |-> SubSeq(buf.tris, 1, buf.count * 9),
        count |-> buf.count]

\* parseASCIISTL
ParseASCIISTL(buf) ==
  IF Len(buf.text) < 9
  THEN [ok |-> FALSE, error |-> "No vertices in ASCII STL", verts |-> << >>, count |-> 0]
  ELSE [ok |-> TRUE, error |-> "",
        verts |-> SubSeq(buf.text, 1, (Len(buf.text) \div 9) * 9),
        count |-> Len(buf.text) \div 9]

\* parseSTL: getUint32(80) throws on a buffer shorter than 84 bytes, which
\* the try block swallows; binary only when the length matches exactly
ParseSTL(buf) ==
  IF buf.byteLength >= 84 /\ buf.count > 0 /\ buf.byteLength = 84 + buf.count * 50
  THEN ParseBinarySTL(buf)
  ELSE ParseASCIISTL(buf)

\* triRayY after the vertex reads: null when the projection is degenerate or
\* a barycentric coordinate is below -1e-6, else the interpolated height
\* (u*ay + v*by + w*cy with w = 1 - u - v, taken relative to cy)
TriBary(denom, numU, numV, ay, by, cy) ==
  IF denom = 0 THEN [hit |-> FALSE, y |-> 0]
  ELSE IF \E n \in {numU, numV, denom - numU - numV} :
            /\ (n < 0) # (denom < 0)
            /\ Abs(n) > Abs(denom) \div 1000000
       THEN [hit |-> FALSE, y |-> 0]
       ELSE [hit |-> TRUE,
             y |-> cy + TDiv(numU * (ay - cy) + numV * (by - cy), denom)]

\* triRayY(rx, rz, verts, base)
TriRayY(rx, rz, verts, base) ==
  TriBary((verts[base + 6] - verts[base + 9]) * (verts[base + 1] - verts[base + 7])
            + (verts[base + 7] - verts[base + 4]) * (verts[base + 3] - verts[base + 9]),
          (verts[base + 6] - verts[base + 9]) * (rx - verts[base + 7])
            + (verts[base + 7] - verts[base + 4]) * (rz - verts[base + 9]),
          (verts[base + 9] - verts[base + 3]) * (rx - verts[base + 7])
            + (verts[base + 1] - verts[base + 7]) * (rz - verts[base + 9]),
          verts[base + 2], verts[base + 5], verts[base + 8])

\* the coordinates of one axis (k = 1, 2, 3) of a vertex array
AxisValues(verts, k) == {verts[3 * (i - 1) + k] : i \in 1..(Len(verts) \div 3)}
SetMin(S) == CHOOSE m \in S : \A x \in S : m <= x
SetMax(S) == CHOOSE m \in S : \A x \in S : m >= x

\* _bboxCenter
BboxCenter(verts) ==
  [ cx |-> TDiv(SetMin(AxisValues(verts, 1)) + SetMax(AxisValues(verts, 1)), 2),
    cy |-> TDiv(SetMin(AxisValues(verts, 2)) + SetMax(AxisValues(verts, 2)), 2),
    cz |-> TDiv(SetMin(AxisValues(verts, 3)) + SetMax(AxisValues(verts, 3)), 2),
    maxSpan |-> SetMax({ SetMax(AxisValues(verts, k)) - SetMin(AxisValues(verts, k)) :
                         k \in 1..3 }) ]

\* _autoScaleFactor: the longest axis becomes 70% of the field diameter
AutoScaleFactor(center) ==
  IF center.maxSpan > 0
  THEN TDiv(Q(WORLD_RANGE * 2 * 70, 100) * 100, center.maxSpan)
  ELSE Q(1, 1)

\* _applyTransform: the world vertices of sc
ApplyTransform(sc) ==
  [sc EXCEPT !.worldVerts =
     [i \in 1..Len(sc.rawVerts) |->
        Mul(sc.rawVerts[i] - (CASE i % 3 = 1 -> sc.rawCenter.cx
                                [] i % 3 = 2 -> sc.rawCenter.cy
                                [] OTHER -> sc.rawCenter.cz),
            Mul(sc.rawAutoS, sc.scale))]]

\* _columnScan, the culling: triangle t is listed for column (gx, gz) when
\* the column lies in the cell range of its XZ bounding box
ColumnHas(verts, t, gx, gz) ==
  /\ gx >= Max(0, FloorDiv(Min(verts[9*t + 1], Min(verts[9*t + 4], verts[9*t + 7]))
                           + Q(WORLD_RANGE, 1), CELL_SIZE))
  /\ gx <= Min(N - 1, CeilDiv(Max(verts[9*t + 1], Max(verts[9*t + 4], verts[9*t + 7]))
                              + Q(WORLD_RANGE, 1), CELL_SIZE))
  /\ gz >= Max(0, FloorDiv(Min(verts[9*t + 3], Min(verts[9*t + 6], verts[9*t + 9]))
                           + Q(WORLD_RANGE, 1), CELL_SIZE))
  /\ gz <= Min(N - 1, CeilDiv(Max(verts[9*t + 3], Max(verts[9*t + 6], verts[9*t + 9]))
                              + Q(WORLD_RANGE, 1), CELL_SIZE))

\* colTris[gx + gz*N], in the order the triangles were pushed
ColTris(verts, nTri, gx, gz) ==
  SelectSeq([k \in 1..nTri |-> k - 1], LAMBDA t : ColumnHas(verts, t, gx, gz))

\* the world coordinate of the ray of column g: (g - N/2 + 0.5) * CELL_SIZE
RayCoord(g) == TDiv((2 * g - N + 1) * CELL_SIZE, 2)

\* if (yh !== null) yHits.push(yh)
PushHit(yh) == IF yh.hit THEN <<yh.y>> ELSE << >>

\* yHits of a column: the heights of the triangles of col that the ray meets
RECURSIVE YHits(_, _, _, _, _)
YHits(verts, col, k, rx, rz) ==
  IF k > Len(col) THEN << >>
  ELSE PushHit(TriRayY(rx, rz, verts, col[k] * 9)) \o YHits(verts, col, k + 1, rx, rz)

\* yHits.sort((a, b) => a - b)
RECURSIVE SortHits(_)
SortHits(h) ==
  IF Len(h) <= 1 THEN h
  ELSE SortHits(SelectSeq(Tail(h), LAMBDA y : y < Head(h)))
       \o <<Head(h)>>
       \o SortHits(SelectSeq(Tail(h), LAMBDA y : y >= Head(h)))

\* the parity fill of one column: cell gy lies in one of the windows
\* (1st, 2nd), (3rd, 4th), ... of the sorted hits
ParityFilled(h, gy) ==
  /\ Len(h) >= 2
  /\ \E k \in 0..((Len(h) \div 2) - 1) :
       /\ gy >= Max(0, CeilDiv(2 * h[2*k + 1] + (N - 1) * CELL_SIZE, 2 * CELL_SIZE))
       /\ gy <= Min(N - 1, FloorDiv(2 * h[2*k + 2] + (N - 1) * CELL_SIZE, 2 * CELL_SIZE))

\* the sorted hits of column (gx, gz)
ColumnHits(verts, nTri, gx, gz) ==
  SortHits(YHits(verts, ColTris(verts, nTri, gx, gz), 1, RayCoord(gx), RayCoord(gz)))

\* the function f with every value computed
Stored(f) == f @@ f

\* _columnScan, the fill: hits[gx + gz*N] are the sorted hits of a column
ColumnFill(hits) ==
  [i \in Cells |->
     IF ParityFilled(hits[(i % N) + (i \div N2) * N], (i \div N) % N)
     THEN MaskOne ELSE 0]

\* _columnScan: the binary mask of the world vertices
ColumnScan(sc) ==
  [sc EXCEPT !.binMask =
     ColumnFill(Stored([k \in 0..(N * N - 1) |->
                          ColumnHits(sc.worldVerts, sc.triCount, k % N, k \div N)]))]

\* constructor: no mesh, the all-ones mask
ShapeConstraint ==
  [ enabled |-> FALSE, fuzziness |-> Q(1, 1), scale |-> Q(1, 1),
    fuzzMask |-> [i \in Cells |-> MaskOne],
    rawVerts |-> << >>, rawCenter |-> [cx |-> 0, cy |-> 0, cz |-> 0, maxSpan |-> 0],
    rawAutoS |-> Q(1, 1), worldVerts |-> << >>, triCount |-> 0,
    binMask |-> [i \in Cells |-> 0] ]

\* _fi(a, b, c, axis): the flat index, c running along the blurred axis
Fi(a, b, c, axis) ==
  CASE axis = "x" -> c + a * N + b * N2
    [] axis = "y" -> a + c * N + b * N2
    [] OTHER -> a + b * N + c * N2

\* _boxPass, the sliding window sum at position c of the line (a, b)
RECURSIVE WindowSum(_, _, _, _, _)
WindowSum(src, a, b, c, axis) ==
  IF c = 0
  THEN src[Fi(a, b, 0, axis)] * 2 + src[Fi(a, b, 1, axis)]
  ELSE WindowSum(src, a, b, c - 1, axis)
       + src[Fi(a, b, Min(c + 1, N - 1), axis)]
       - src[Fi(a, b, Max(c - 2, 0), axis)]

\* _boxPass(src, dst, axis): the dst it leaves
BoxPass(src, axis) ==
  Stored([i \in Cells |->
     CASE axis = "x" -> WindowSum(src, (i \div N) % N, i \div N2, i % N, axis) \div 3
       [] axis = "y" -> WindowSum(src, i % N, i \div N2, (i \div N) % N, axis) \div 3
       [] OTHER -> WindowSum(src, i % N, (i \div N) % N, i \div N2, axis) \div 3])

\* Math.max(0, Math.round(fuzziness / CELL_SIZE))
NumPasses(fuzziness) == Max(0, FloorDiv(2 * fuzziness + CELL_SIZE, 2 * CELL_SIZE))

\* _blurBinary, the rounds: one x, one y and one z pass each
RECURSIVE BlurRounds(_, _)
BlurRounds(t0, p) ==
  IF p = 0 THEN t0
  ELSE BlurRounds(BoxPass(BoxPass(BoxPass(t0, "x"), "y"), "z"), p - 1)

\* a blur that starts from the published mask
BlurAccumulates(sc) == sc.fuzzMask

\* _blurBinary: t0.set(this._binMask), what every blur starts from
BlurSource(sc) == sc.binMask

\* _blurBinary
BlurBinary(sc) ==
  [sc EXCEPT !.fuzzMask = BlurRounds(BlurSource(sc), NumPasses(sc.fuzziness))]

\* _rebuildFull (the geometry callback only feeds the renderer)
RebuildFull(sc) == BlurBinary(ColumnScan(sc))

\* loadSTL after a successful parse
LoadParsed(sc, parsed) ==
  [RebuildFull(ApplyTransform(
     [sc EXCEPT !.triCount = parsed.count,
                !.rawVerts = parsed.verts,
                !.rawCenter = BboxCenter(parsed.verts),
                !.rawAutoS = AutoScaleFactor(BboxCenter(parsed.verts))]))
   EXCEPT !.enabled = TRUE]

\* a loadSTL that stores the triangle count before it knows the parse failed
LoadSTLCountsFirst(sc, parsed) ==
  [sc |-> [sc EXCEPT !.triCount = parsed.count], result |-> "undefined",
   threw |-> FALSE, console |-> parsed.error]

\* loadSTL, the catch block: the error is logged and the call returns
LoadSTLCatch(sc, parsed) ==
  [sc |-> sc, result |-> "undefined", threw |-> FALSE, console |-> parsed.error]

\* loadSTL(arrayBuffer): the constraint it leaves, what the call returns and
\* whether it throws
LoadSTLOf(sc, parsed) ==
  IF ~parsed.ok THEN LoadSTLCatch(sc, parsed)
  ELSE [sc |-> LoadParsed(sc, parsed), result |-> "undefined", threw |-> FALSE,
        console |-> "triangles"]
LoadSTL(sc, buf) == LoadSTLOf(sc, ParseSTL(buf))

\* setScale(v)
SetScale(sc, v) ==
  IF sc.rawVerts = << >> THEN [sc EXCEPT !.scale = v]
  ELSE RebuildFull(ApplyTransform([sc EXCEPT !.scale = v]))

\* setFuzziness(v)
SetFuzziness(sc, v) ==
  IF sc.rawVerts = << >> THEN [sc EXCEPT !.fuzziness = v]
  ELSE BlurBinary([sc EXCEPT !.fuzziness = v])

---------------------------------------------------------------------------
(* main.js: state, GUI handlers and the fixed-timestep loop; and the calls *)
(* a test makes on the components directly                                 *)

\* milliseconds
SIM_DT == 4
MAX_STEPS == 4
MAX_WALL_DT == 50

MaxOps == 4
MaxGui == 3
MaxFrames == 3

PoolDts == {4, 500, 2000}
FieldDts == {4, 2000}
AnalysisDts == {16, 1000}
PairTypes == { <<TYPE_ELECTRON, TYPE_POSITRON>> }
\* the milliseconds between two animation frames
Elapsed == {9, 100}
\* frame intervals around SIM_DT: a frame without a step, a frame with two
ShortElapsed == {2, 9}

ZeroCells == [i \in Cells |-> 0]

\* what the last operation was, what it was given and what it met
NoHist == [op |-> "none", dt |-> 0, toAnnihilate |-> << >>, log |-> << >>, free |-> MAX,
           analysis |-> FALSE, analysisDt |-> 0, flashBefore |-> ZeroCells,
           ok |-> TRUE, result |-> "none", threw |-> FALSE]

GuiState ==
  [ mode |-> "loop", fieldSpeed |-> Q(1, 1), injectionRate |-> Q(4, 1),
    higgsVEV |-> Q(8, 10), yukawaCoupling |-> Q(3, 10), damping |-> Q(5, 100),
    orchThreshold |-> Q(95, 100), orchGrowthRate |-> Q(8, 10), iitUpdateRate |-> Q(15, 100),
    consciousnessEnabled |-> TRUE, heartStrength |-> 0, shapeEnabled |-> FALSE ]

Init ==
  /\ \E s \in Streams : field = QuantumField(s)
  /\ particles = ParticleSystem
  /\ consciousness = Consciousness
  /\ guiState = GuiState
  /\ accumDt = 0
  /\ simRunning = TRUE
  /\ consFrameAcc = 0
  /\ frameCount = 0
  /\ pc = "idle"
  /\ steps = 0
  /\ hist = NoHist
  /\ ops = 0
  /\ frames = 0
  /\ shapeConstraint = ShapeConstraint
  /\ applied = "loop"
  /\ injected = [attempts |-> 0, amount |-> 0]

\* a direct particles.spawnPair(typeA, typeB)
CallSpawnPair ==
  /\ pc = "idle" /\ ops < MaxOps
  /\ \E s \in Streams, ty \in PairTypes :
       particles' = SpawnPair(particles, field, ty[1], ty[2], s, 0).p
  /\ hist' = [NoHist EXCEPT !.op = "spawnPair", !.free = Len(particles.freeList)]
  /\ ops' = ops + 1
  /\ UNCHANGED <<injected, applied, shapeConstraint, field, consciousness, guiState, accumDt, simRunning, consFrameAcc,
                 frameCount, pc, steps, frames>>

\* a direct particles.update(dt) with the random stream s
PoolUpdateStep(dt, s) ==
  /\ pc = "idle"
  /\ \E u \in {Update(particles, field, dt, s)} :
       /\ particles' = u.p
       /\ field' = [field EXCEPT !.orchCoherence = u.coh]
       /\ injected' = Injected(injected, particles, field, dt, s)
       /\ hist' = [NoHist EXCEPT !.op = "update", !.dt = dt,
                                 !.toAnnihilate = u.toAnnihilate, !.log = u.log,
                                 !.free = Len(particles.freeList)]
  /\ ops' = ops + 1
  /\ UNCHANGED <<applied, shapeConstraint, consciousness, guiState, accumDt, simRunning, consFrameAcc,
                 frameCount, pc, steps, frames>>

PoolUpdateWith(dt, s) == ops < MaxOps /\ PoolUpdateStep(dt, s)

CallPoolUpdate == \E dt \in PoolDts, s \in Streams : PoolUpdateWith(dt, s)

\* a particles.update(dt) with a timestep the driver can produce
\* (SIM_DT * fieldSpeed, fieldSpeed from 0.1 to 5)
TickDts == {4, 20}
MaxTicks == 6
CallPoolTick == ops < MaxTicks /\ \E dt \in TickDts, s \in Streams : PoolUpdateStep(dt, s)

\* a direct field.update(dt)
CallFieldUpdate ==
  /\ pc = "idle" /\ ops < MaxOps
  /\ \E dt \in FieldDts, s \in Streams :
       /\ field' = FieldUpdate(field, dt, s)
       /\ hist' = [NoHist EXCEPT !.op = "fieldUpdate", !.dt = dt]
  /\ ops' = ops + 1
  /\ UNCHANGED <<injected, applied, shapeConstraint, particles, consciousness, guiState, accumDt, simRunning, consFrameAcc,
                 frameCount, pc, steps, frames>>

\* a direct consciousness.update(dt)
CallConsciousnessUpdate ==
  /\ pc = "idle" /\ ops < MaxOps
  /\ \E dt \in AnalysisDts :
       /\ field' = ConsciousnessUpdate(field, consciousness, dt)
       /\ hist' = [NoHist EXCEPT !.op = "analysis", !.dt = dt, !.analysis = TRUE,
                                 !.analysisDt = dt, !.flashBefore = field.orchFlash]
  /\ ops' = ops + 1
  /\ UNCHANGED <<injected, applied, shapeConstraint, particles, consciousness, guiState, accumDt, simRunning, consFrameAcc,
                 frameCount, pc, steps, frames>>

\* a reset that refills the free list without clearing the active set
ResetKeepsActive(p) ==
  [p EXCEPT !.freeList = [k \in 1..MAX |-> MAX - k],
            !.type = [i \in Slots |-> 0]]

\* guiState.applyMode, the pool's reset loop: alpha and the relation fields
\* of the slots stay as they were
ResetPool(p) ==
  [p EXCEPT !.active = << >>,
            !.freeList = [k \in 1..MAX |-> MAX - k],
            !.type = [i \in Slots |-> 0]]

\* guiState.applyMode; applied keeps the mode that field.init was last
\* called with
GuiApplyMode ==
  /\ pc = "idle" /\ ops < MaxOps
  /\ \E s \in Streams : field' = FieldInit(field, guiState.mode, s)
  /\ particles' = ResetPool(particles)
  /\ simRunning' = TRUE
  /\ hist' = [NoHist EXCEPT !.op = "applyMode", !.free = Len(particles.freeList)]
  /\ applied' = guiState.mode
  /\ ops' = ops + 1
  /\ UNCHANGED <<injected, shapeConstraint, consciousness, guiState, accumDt, consFrameAcc, frameCount,
                 pc, steps, frames>>

\* a GUI control that only writes its own guiState field
GuiWrites(name, v) ==
  /\ pc = "idle" /\ ops < MaxOps
  /\ v # guiState[name]
  /\ guiState' = [guiState EXCEPT ![name] = v]
  /\ hist' = [NoHist EXCEPT !.op = name]
  /\ ops' = ops + 1
  /\ UNCHANGED <<accumDt, simRunning, consFrameAcc, frameCount, pc, steps, frames>>

\* the Mode dropdown
GuiSetModeTo(m) == GuiWrites("mode", m) /\ UNCHANGED <<injected, applied, shapeConstraint, field, particles, consciousness>>
GuiSetMode == \E m \in Modes : GuiSetModeTo(m)

\* the Field Speed slider
GuiSetFieldSpeed ==
  /\ \E v \in {Q(1, 2), Q(1, 1), Q(5, 1)} : GuiWrites("fieldSpeed", v)
  /\ UNCHANGED <<injected, applied, shapeConstraint, field, particles, consciousness>>

\* the Injection Rate slider and its onChange
GuiSetInjectionRate ==
  /\ \E v \in {0, Q(4, 1), Q(20, 1)} :
       /\ GuiWrites("injectionRate", v)
       /\ particles' = [particles EXCEPT !.injectionRate = v]
  /\ UNCHANGED <<injected, applied, shapeConstraint, field, consciousness>>

\* the Enabled checkbox and its onChange
GuiSetEnabled ==
  /\ \E v \in BOOLEAN :
       /\ GuiWrites("consciousnessEnabled", v)
       /\ consciousness' = [consciousness EXCEPT !.enabled = v]
  /\ UNCHANGED <<injected, applied, shapeConstraint, field, particles>>

\* the Orch-OR Threshold slider and its onChange
GuiSetOrchThresholdTo(v) ==
  /\ GuiWrites("orchThreshold", v)
  /\ consciousness' = [consciousness EXCEPT !.orchThreshold = v]
  /\ UNCHANGED <<injected, applied, shapeConstraint, field, particles>>
GuiSetOrchThreshold == \E v \in {Q(1, 10), Q(8, 10), Q(95, 100)} : GuiSetOrchThresholdTo(v)

\* the Growth Rate slider and its onChange
GuiSetGrowthRate ==
  /\ \E v \in {Q(1, 10), Q(8, 10), Q(3, 1)} :
       /\ GuiWrites("orchGrowthRate", v)
       /\ consciousness' = [consciousness EXCEPT !.orchGrowthRate = v]
  /\ UNCHANGED <<injected, applied, shapeConstraint, field, particles>>

\* the heart Probability / Strength slider and its onChange
GuiSetHeartStrength ==
  /\ \E v \in {0, Q(1, 2), Q(1, 1)} :
       /\ GuiWrites("heartStrength", v)
       /\ field' = [field EXCEPT !.heartStrength = v]
  /\ UNCHANGED <<injected, applied, shapeConstraint, particles, consciousness>>

\* the values given to setScale and setFuzziness
Scales == {Q(1, 2), Q(1, 1), Q(3, 1)}
Fuzzinesses == {0, Q(1, 1), Q(6, 1), Q(14, 1)}

\* the stl-input change handler, reader.onload: loadSTL, then the field is
\* handed the mask when the constraint is enabled
StlInputLoad ==
  /\ pc = "idle" /\ ops < MaxOps
  /\ \E buf \in Buffers :
       \E r \in {LoadSTL(shapeConstraint, buf)} :
         /\ shapeConstraint' = r.sc
         /\ field' = IF r.sc.enabled THEN [field EXCEPT !.shapeMask = "fuzzMask"] ELSE field
         /\ hist' = [NoHist EXCEPT !.op = "loadSTL", !.ok = ParseSTL(buf).ok,
                                   !.result = r.result, !.threw = r.threw]
  /\ ops' = ops + 1
  /\ UNCHANGED <<injected, applied, particles, consciousness, guiState, accumDt, simRunning, consFrameAcc,
                 frameCount, pc, steps, frames>>

\* a direct shapeConstraint.setScale(v)
CallSetScale ==
  /\ pc = "idle" /\ ops < MaxOps
  /\ \E v \in Scales : shapeConstraint' = SetScale(shapeConstraint, v)
  /\ hist' = [NoHist EXCEPT !.op = "setScale"]
  /\ ops' = ops + 1
  /\ UNCHANGED <<injected, applied, field, particles, consciousness, guiState, accumDt, simRunning,
                 consFrameAcc, frameCount, pc, steps, frames>>

\* a direct shapeConstraint.setFuzziness(v)
CallSetFuzziness ==
  /\ pc = "idle" /\ ops < MaxOps
  /\ \E v \in Fuzzinesses : shapeConstraint' = SetFuzziness(shapeConstraint, v)
  /\ hist' = [NoHist EXCEPT !.op = "setFuzziness"]
  /\ ops' = ops + 1
  /\ UNCHANGED <<injected, applied, field, particles, consciousness, guiState, accumDt, simRunning,
                 consFrameAcc, frameCount, pc, steps, frames>>

\* the shape Enabled checkbox and its onChange
GuiSetShapeEnabled ==
  /\ \E v \in BOOLEAN :
       /\ GuiWrites("shapeEnabled", v)
       /\ shapeConstraint' = [shapeConstraint EXCEPT !.enabled = v]
       /\ field' = [field EXCEPT !.shapeMask =
                      IF v /\ shapeConstraint.rawVerts # << >> THEN "fuzzMask" ELSE "null"]
  /\ UNCHANGED <<injected, applied, particles, consciousness>>

\* the Higgs VEV slider: its onChange only logs the value
GuiSetHiggsVEV ==
  /\ \E v \in {Q(1, 10), Q(8, 10), Q(2, 1)} : GuiWrites("higgsVEV", v)
  /\ UNCHANGED <<injected, applied, shapeConstraint, field, particles, consciousness>>

\* the Yukawa Coupling slider, which has no onChange
GuiSetYukawaCoupling ==
  /\ \E v \in {0, Q(3, 10), Q(1, 1)} : GuiWrites("yukawaCoupling", v)
  /\ UNCHANGED <<injected, applied, shapeConstraint, field, particles, consciousness>>

\* the Photon Damping slider, which has no onChange
GuiSetDamping ==
  /\ \E v \in {0, Q(5, 100), Q(2, 10)} : GuiWrites("damping", v)
  /\ UNCHANGED <<injected, applied, shapeConstraint, field, particles, consciousness>>

\* animate up to the while loop: the wall time is capped and accumulated
AnimateAfter(elapsed) ==
  /\ pc = "idle" /\ frames < MaxFrames
  /\ IF simRunning
     THEN /\ accumDt' = accumDt + Min(elapsed, MAX_WALL_DT)
          /\ steps' = 0
          /\ pc' = "loop"
     ELSE UNCHANGED <<accumDt, steps, pc>>
  /\ frames' = frames + 1
  /\ hist' = [NoHist EXCEPT !.op = "animate"]
  /\ UNCHANGED <<injected, applied, shapeConstraint, field, particles, consciousness, guiState, simRunning, consFrameAcc,
                 frameCount, ops>>

AnimateBegin == \E elapsed \in Elapsed : AnimateAfter(elapsed)
AnimateShort == \E elapsed \in ShortElapsed : AnimateAfter(elapsed)

\* an analysis that is due one step early
DueAtThree(acc) == acc >= 3

\* animate, the analysis is due when the counter of sim steps reaches 4
AnalysisDue(acc) == acc >= 4

\* animate, the timestep handed to the analysis
AnalysisDt(scaledDT) == scaledDT * 4

\* animate, SIM_DT * guiState.fieldSpeed
ScaledDT(g) == Mul(SIM_DT, g.fieldSpeed)

\* animate, the field after particles.update wrote its coherence boosts
AfterPool(f, u) == [f EXCEPT !.orchCoherence = u.coh]

\* animate, the field of one sim step: field.update, particles.update, then
\* the analysis with timestep adt when it is due
StepField(f, u, c, adt, due) ==
  IF due THEN ConsciousnessUpdate(AfterPool(f, u), c, adt) ELSE AfterPool(f, u)

\* animate, one iteration of the while loop
SimStep ==
  /\ pc = "loop"
  /\ accumDt >= SIM_DT /\ steps < MAX_STEPS
  /\ \E s \in Streams, due \in {AnalysisDue(consFrameAcc + 1)},
        adt \in {AnalysisDt(ScaledDT(guiState))} :
       \E f1 \in {FieldUpdate(field, ScaledDT(guiState), s)} :
         \E u \in {Update(particles, f1, ScaledDT(guiState), s)} :
           /\ particles' = u.p
           /\ field' = StepField(f1, u, consciousness, adt, due)
           /\ injected' = Injected(injected, particles, f1, ScaledDT(guiState), s)
           /\ hist' = [NoHist EXCEPT !.op = "tick", !.dt = ScaledDT(guiState),
                                     !.toAnnihilate = u.toAnnihilate, !.log = u.log,
                                     !.free = Len(particles.freeList),
                                     !.analysis = due,
                                     !.analysisDt = IF due THEN adt ELSE 0,
                                     !.flashBefore = field.orchFlash]
           /\ consFrameAcc' = IF due THEN 0 ELSE consFrameAcc + 1
  /\ accumDt' = accumDt - SIM_DT
  /\ steps' = steps + 1
  /\ frameCount' = frameCount + 1
  /\ UNCHANGED <<applied, shapeConstraint, consciousness, guiState, simRunning, pc, ops, frames>>

\* animate after the while loop: the completion check
AnimateEnd ==
  /\ pc = "loop"
  /\ ~(accumDt >= SIM_DT /\ steps < MAX_STEPS)
  /\ simRunning' = IF guiState.mode # "loop" /\ AllDead(particles) /\ IsQuiescent(field)
                   THEN FALSE ELSE simRunning
  /\ pc' = "idle"
  /\ hist' = [NoHist EXCEPT !.op = "frame"]
  /\ UNCHANGED <<injected, applied, shapeConstraint, field, particles, consciousness, guiState, accumDt, consFrameAcc,
                 frameCount, steps, ops, frames>>

\* the pool driven directly
NextPool == CallSpawnPair \/ CallPoolUpdate \/ GuiApplyMode
SpecPool == Init /\ [][NextPool]_vars

\* the pool driven directly over the field of every preset
NextGradient == GuiSetMode \/ GuiApplyMode \/ CallSpawnPair \/ CallPoolUpdate
SpecGradient == Init /\ [][NextGradient]_vars

\* the pool driven at the driver's timesteps, pairs coming from injection only
NextTicks == GuiSetInjectionRate \/ CallPoolTick
SpecTicks == Init /\ [][NextTicks]_vars

\* the pool updated at changing injection rates, with resets
NextInjection == GuiSetInjectionRate \/ CallPoolUpdate \/ GuiApplyMode
SpecInjection == Init /\ [][NextInjection]_vars

\* the field driven directly
NextField == GuiSetMode \/ GuiApplyMode \/ GuiSetHeartStrength \/ CallFieldUpdate
SpecField == Init /\ [][NextField]_vars

\* the analysis driven directly, with presets and annihilation boosts
AnnihilationBoost == \E s \in Streams : PoolUpdateWith(500, s)
NextAnalysis ==
  \/ GuiSetMode \/ GuiApplyMode \/ GuiSetOrchThreshold \/ GuiSetGrowthRate
  \/ AnnihilationBoost \/ CallConsciousnessUpdate
SpecAnalysis == Init /\ [][NextAnalysis]_vars

\* the shape constraint driven through its API and its GUI controls
NextShape == StlInputLoad \/ CallSetScale \/ CallSetFuzziness \/ GuiSetShapeEnabled
SpecShape == Init /\ [][NextShape]_vars

\* the Fields folder of the GUI and the field steps that follow
NextParams == GuiSetHiggsVEV \/ GuiSetYukawaCoupling \/ GuiSetDamping \/ CallFieldUpdate
SpecParams == Init /\ [][NextParams]_vars

\* every writer of the field's storage: preset resets, field steps, pool
\* updates and analysis steps
NextOwnership ==
  \/ GuiSetMode \/ GuiApplyMode \/ CallFieldUpdate \/ AnnihilationBoost
  \/ CallConsciousnessUpdate
SpecOwnership == Init /\ [][NextOwnership]_vars

\* the application: up to MaxGui GUI events between frames, frames of up to
\* MAX_STEPS steps
DriverSetMode == ops < MaxGui /\ \E m \in {"loop", "consciousness"} : GuiSetModeTo(m)
DriverApplyMode == ops < MaxGui /\ GuiApplyMode
DriverSetEnabled == ops < MaxGui /\ GuiSetEnabled
DriverSetOrchThreshold ==
  ops < MaxGui /\ \E v \in {Q(1, 10), Q(95, 100)} : GuiSetOrchThresholdTo(v)
Next ==
  \/ DriverSetMode \/ DriverApplyMode \/ DriverSetEnabled \/ DriverSetOrchThreshold
  \/ AnimateBegin \/ SimStep \/ AnimateEnd
Spec == Init /\ [][Next]_vars

\* the application with frames shorter than a step: mode selection, Apply
\* Mode and frames
NextStop == DriverSetMode \/ DriverApplyMode \/ AnimateShort \/ SimStep \/ AnimateEnd
SpecStop == Init /\ [][NextStop]_vars

---------------------------------------------------------------------------
(* The particle pool: pairing, annihilation, exhaustion *)

ActiveSet == SeqToSet(particles.active)

\* the forced entries of the last update, in the order they were pushed
Forced == SelectSeq(hist.toAnnihilate, LAMBDA e : e.doFlash)
ForcedNext == SelectSeq(hist'.toAnnihilate, LAMBDA e : e.doFlash)

\* C1: every active slot with a partner has its partner active and pointing back
C1_PairingSymmetric ==
  \A i \in ActiveSet :
    particles.pairWith[i] # -1 =>
      /\ particles.pairWith[i] \in ActiveSet
      /\ particles.pairWith[particles.pairWith[i]] = i

\* an update that annihilated one pair and left another pair active
C1_Witness ==
  /\ hist.op = "update"
  /\ Len(hist.log) > 0
  /\ \E i \in ActiveSet : particles.pairWith[i] # -1

\* the number of forced annihilations of the step's update whose midpoint is nearest cell ci
BoostsAt(log, ci) == Cardinality({n \in 1..Len(log) : log[n].cell = ci})

\* slot i was freed by the n-th forced annihilation and handed to a photon
\* of a later one of the same call
Reallocated(p, log, n, i) ==
  /\ p.type[i] = TYPE_PHOTON
  /\ p.pairWith[i] = -1
  /\ \E m \in (n + 1)..Len(log) : i \in SeqToSet(log[m].photons)

\* C2 as stated: after an update, the slots of every pair it found within the
\* radius are out of the active set and the cell nearest their midpoint has
\* coherence min(1, previous + 0.4)
C2_AsStated ==
  [][hist'.op = "update" =>
       /\ Len(hist'.log) = Len(ForcedNext)
       /\ \A n \in 1..Len(ForcedNext) :
            /\ hist'.log[n].a = ForcedNext[n].a /\ hist'.log[n].b = ForcedNext[n].b
            /\ ForcedNext[n].a \notin SeqToSet(particles'.active)
            /\ ForcedNext[n].b \notin SeqToSet(particles'.active)
            /\ field'.orchCoherence[hist'.log[n].cell]
                 = Min(Q(1, 1), field.orchCoherence[hist'.log[n].cell] + Q(4, 10))]_vars

\* C2: after an update, the slots of every pair it found within the radius
\* have been freed (each is out of the active set, or was handed to an
\* unpaired photon of a later annihilation of the same call) and the cell
\* nearest their midpoint has coherence min(1, previous + 0.4 k), k the number
\* of annihilations of the call at that cell
C2_FreedAndBoosted ==
  [][hist'.op = "update" =>
       /\ Len(hist'.log) = Len(ForcedNext)
       /\ \A n \in 1..Len(ForcedNext) :
            /\ hist'.log[n].a = ForcedNext[n].a /\ hist'.log[n].b = ForcedNext[n].b
            /\ \A i \in {ForcedNext[n].a, ForcedNext[n].b} :
                 \/ i \notin SeqToSet(particles'.active)
                 \/ Reallocated(particles', hist'.log, n, i)
            /\ field'.orchCoherence[hist'.log[n].cell]
                 = Min(Q(1, 1), field.orchCoherence[hist'.log[n].cell]
                                + Q(4, 10) * BoostsAt(hist'.log, hist'.log[n].cell))]_vars

\* an update that annihilated two pairs at the same cell, the second one's
\* photons taking a slot of the first pair
C2_Witness ==
  /\ hist.op = "update"
  /\ Len(Forced) >= 2
  /\ hist.log[1].cell = hist.log[2].cell
  /\ hist.log[1].a \in ActiveSet
  /\ field.orchCoherence[hist.log[1].cell] = Q(8, 10)

\* the photons of a forced annihilation: active, photon type, no partner, just spawned
NewPhotons(rec) ==
  \A i \in SeqToSet(rec.photons) :
    /\ i \in ActiveSet
    /\ particles.type[i] = TYPE_PHOTON
    /\ particles.pairWith[i] = -1 /\ particles.entangledWith[i] = -1
    /\ particles.age[i] = 0
DistinctSlots(ids) == Cardinality(SeqToSet(ids)) = Len(ids)

\* C3 as stated: every forced annihilation of an update produced exactly 3 new
\* active unpaired photon slots
C3_AsStated ==
  hist.op = "update" =>
    \A n \in 1..Len(hist.log) :
      /\ Len(hist.log[n].photons) = 3
      /\ DistinctSlots(hist.log[n].photons)
      /\ NewPhotons(hist.log[n])

\* C3: every forced annihilation of an update produced min(3, free slots it
\* found) new active unpaired photon slots
C3_PhotonsUpToFree ==
  hist.op = "update" =>
    \A n \in 1..Len(hist.log) :
      /\ Len(hist.log[n].photons) = Min(3, hist.log[n].free)
      /\ DistinctSlots(hist.log[n].photons)
      /\ NewPhotons(hist.log[n])

\* an update with two forced annihilations, one of which found fewer than 3 free slots
C3_Witness ==
  /\ hist.op = "update"
  /\ Len(hist.log) >= 2
  /\ \E n \in 1..Len(hist.log) : hist.log[n].free < 3

\* C4: a spawnPair made with fewer than two free slots leaves the active set
\* and the free slots as they were and allocates nothing
C4_FailedSpawnChangesNothing ==
  [][(hist'.op = "spawnPair" /\ Len(particles.freeList) < 2) =>
       /\ particles'.active = particles.active
       /\ particles'.freeList = particles.freeList
       /\ particles'.type = particles.type
       /\ particles'.pairWith = particles.pairWith]_vars

\* a spawnPair that found exactly one free slot
C4_Witness == hist.op = "spawnPair" /\ hist.free = 1

---------------------------------------------------------------------------
(* The field and the analysis *)

InRange(v, lo, hi) == lo <= v /\ v <= hi

\* C5: after a field update every higgs, electron and photon amplitude is in [-5, 5]
C5_AmplitudesClamped ==
  hist.op = "fieldUpdate" =>
    \A i \in Cells :
      /\ InRange(field.higgs[i], -Q(5, 1), Q(5, 1))
      /\ InRange(field.electron[i], -Q(5, 1), Q(5, 1))
      /\ InRange(field.photon[i], -Q(5, 1), Q(5, 1))

\* a field update with the heart attractor on that left an amplitude at the bound
C5_Witness ==
  /\ hist.op = "fieldUpdate"
  /\ field.heartStrength > 0
  /\ \E i \in Cells : Abs(field.higgs[i]) = Q(5, 1) \/ Abs(field.electron[i]) = Q(5, 1)
                      \/ Abs(field.photon[i]) = Q(5, 1)

\* C6: the coherence of every cell is in [0, 1]
C6_CoherenceInUnitInterval ==
  \A i \in Cells : InRange(field.orchCoherence[i], 0, Q(1, 1))

\* an annihilation boost that met the bound: the cell is at 1 after two boosts
\* of one update on top of a preset's coherence
C6_Witness ==
  /\ hist.op = "update"
  /\ guiState.mode = "consciousness"
  /\ Len(hist.log) >= 2
  /\ field.orchCoherence[hist.log[1].cell] = Q(1, 1)

\* C8: after an analysis step run while enabled, a cell has flash 1 and
\* coherence 0 exactly when its clamped accumulated coherence reached the
\* threshold in this call, and otherwise flash 0 and coherence below the
\* threshold; no flash of an earlier call survives
C8_FlashIffCollapse ==
  [][(hist'.op = "analysis" /\ consciousness.enabled) =>
       \A i \in Cells :
         \E acc \in {OrchAccumulate(field, consciousness, hist'.dt, i)} :
           IF acc >= consciousness.orchThreshold
           THEN field'.orchFlash[i] = 1 /\ field'.orchCoherence[i] = 0
           ELSE /\ field'.orchFlash[i] = 0
                /\ field'.orchCoherence[i] = acc
                /\ field'.orchCoherence[i] < consciousness.orchThreshold]_vars

\* an analysis step after which a cell that flashed in the call before shows no flash
C8_Witness ==
  /\ hist.op = "analysis"
  /\ \E i \in Cells : hist.flashBefore[i] = 1 /\ field.orchFlash[i] = 0

---------------------------------------------------------------------------
(* The driver *)

\* C7 as stated: after a tick a cell shows flash 1 only if the analysis ran
\* in this tick and the cell showed flash 0 after the tick before
C7_AsStated ==
  hist.op = "tick" =>
    \A i \in Cells :
      field.orchFlash[i] = 1 => (hist.analysis /\ hist.flashBefore[i] = 0)

\* C9 as stated: at most MAX_STEPS steps in a frame, and less than one step
\* of accumulated time left when the frame ends
C9_AsStated ==
  /\ steps <= MAX_STEPS
  /\ hist.op = "frame" => accumDt < SIM_DT

---------------------------------------------------------------------------
(* The shape constraint *)

\* C11: a loadSTL whose input fails to parse leaves the whole constraint
\* (published mask, binary mask, raw and world geometry, triangle count,
\* enabled flag) as it was, and the mask of a constraint that never had a
\* mesh stays all ones
C11_FailedLoadChangesNothing ==
  [][(hist'.op = "loadSTL" /\ ~hist'.ok) =>
       /\ shapeConstraint' = shapeConstraint
       /\ (shapeConstraint.rawVerts = << >> =>
             \A i \in Cells : shapeConstraint'.fuzzMask[i] = MaskOne)]_vars

\* a failed load that followed a successful one, the constraint switched off
\* in between
C11_Witness ==
  /\ hist.op = "loadSTL" /\ ~hist.ok
  /\ shapeConstraint.rawVerts # << >>
  /\ ~shapeConstraint.enabled
  /\ \E i \in Cells : shapeConstraint.fuzzMask[i] # MaskOne

\* C12 as stated: a loadSTL whose input fails to parse throws, or returns
\* something else than a successful load returns
C12_AsStated ==
  (hist.op = "loadSTL" /\ ~hist.ok) => (hist.threw \/ hist.result # "undefined")

\* the mask a full rebuild of sc gives: column scan of the transformed
\* geometry, then the blur rounds of its fuzziness from the binary mask
FullRebuildMask(sc) ==
  BlurRounds(ColumnScan(ApplyTransform(sc)).binMask, NumPasses(sc.fuzziness))

\* C13: setFuzziness(v) on a loaded mesh publishes the mask of a full
\* rebuild at fuzziness v, never changes the binary mask, and changes
\* nothing at all when v is the fuzziness already set
C13_ReblurIsRebuild ==
  [][hist'.op = "setFuzziness" =>
       /\ shapeConstraint'.binMask = shapeConstraint.binMask
       /\ (shapeConstraint.rawVerts # << >> =>
             shapeConstraint'.fuzzMask = FullRebuildMask(shapeConstraint'))
       /\ (shapeConstraint'.fuzziness = shapeConstraint.fuzziness =>
             shapeConstraint' = shapeConstraint)]_vars

\* a setFuzziness that blurred a loaded mesh by two rounds into a mask that
\* is neither the binary mask nor uniform
C13_Witness ==
  /\ hist.op = "setFuzziness"
  /\ shapeConstraint.rawVerts # << >>
  /\ NumPasses(shapeConstraint.fuzziness) = 2
  /\ shapeConstraint.fuzzMask # shapeConstraint.binMask
  /\ \E i, j \in Cells : shapeConstraint.fuzzMask[i] # shapeConstraint.fuzzMask[j]

\* the world coordinates (x, y, z) of the centre of cell i
MaskCellCentre(i) == <<RayCoord(i % N), RayCoord((i \div N) % N), RayCoord(i \div N2)>>

\* the centre of cell i lies strictly inside, or strictly outside, the
\* bounding box of the world vertices v
CentreInside(v, i) ==
  \A k \in 1..3 : /\ MaskCellCentre(i)[k] > SetMin(AxisValues(v, k))
                  /\ MaskCellCentre(i)[k] < SetMax(AxisValues(v, k))
CentreOutside(v, i) ==
  \E k \in 1..3 : \/ MaskCellCentre(i)[k] < SetMin(AxisValues(v, k))
                  \/ MaskCellCentre(i)[k] > SetMax(AxisValues(v, k))

\* C14 as stated: for a box mesh voxelized with zero blur rounds, every cell
\* whose centre is inside the scaled box has mask 1 and every cell whose
\* centre is outside has mask 0
C14_AsStated ==
  (/\ shapeConstraint.rawVerts \in {Cube, CubeMixed, Slab}
   /\ NumPasses(shapeConstraint.fuzziness) = 0) =>
    \A i \in Cells :
      /\ CentreInside(shapeConstraint.worldVerts, i) => shapeConstraint.fuzzMask[i] = MaskOne
      /\ CentreOutside(shapeConstraint.worldVerts, i) => shapeConstraint.fuzzMask[i] = 0

---------------------------------------------------------------------------
(* The live-tunable scalars *)

\* the acceleration laws with the vev, the Higgs-electron coupling and the
\* photon damping that the parameter surface g holds
AccelerationsAsSet(f, g) ==
  [ h |-> [i \in Cells |->
             Mul(Q(3, 10), Laplacian(f.higgs, Coords(i)[1], Coords(i)[2], Coords(i)[3]))
             - Mul(Mul(f.higgs[i] - g.higgsVEV,
                       Mul(f.higgs[i], f.higgs[i]) - Mul(g.higgsVEV, g.higgsVEV)), Q(4, 10))
             - Mul(Mul(Q(1, 10), f.electron[i]), f.electron[i])],
    e |-> [i \in Cells |->
             Mul(Q(5, 10), Laplacian(f.electron, Coords(i)[1], Coords(i)[2], Coords(i)[3]))
             - Mul(Q(2, 10), f.electron[i])
             - Mul(Mul(g.yukawaCoupling, f.higgs[i]), f.electron[i])],
    p |-> [i \in Cells |->
             Mul(Q(1, 1), Laplacian(f.photon, Coords(i)[1], Coords(i)[2], Coords(i)[3]))
             - Mul(g.damping, f.photonVel[i]) + Mul(Q(2, 10), f.electronVel[i])] ]

\* the velocity half of the step with the accelerations old and new
VelocitiesAsSet(f, old, new, dt) ==
  [f EXCEPT !.higgsVel = [i \in Cells |-> @[i] + MulDtHalf(old.h[i] + new.h[i], dt)],
            !.electronVel = [i \in Cells |-> @[i] + MulDtHalf(old.e[i] + new.e[i], dt)],
            !.photonVel = [i \in Cells |-> @[i] + MulDtHalf(old.p[i] + new.p[i], dt)]]

\* the field step whose laws use the scalars of g
FieldUpdateAsSet(f, g, dt, s) ==
  ClampField(HeartAttractor(
    VelocitiesAsSet(VerletPositions(f, AccelerationsAsSet(f, g), dt),
                    AccelerationsAsSet(f, g),
                    AccelerationsAsSet(VerletPositions(f, AccelerationsAsSet(f, g), dt), g),
                    dt),
    dt, s))

\* C15 as stated: a field step uses the vev, the Higgs-electron coupling and
\* the photon damping that the parameter surface holds when it runs
C15_AsStated ==
  [][hist'.op = "fieldUpdate" =>
       \E s \in Streams : field' = FieldUpdateAsSet(field, guiState, hist'.dt, s)]_vars

---------------------------------------------------------------------------
(* Ownership of the field's storage *)

\* the amplitudes and velocities of f, and its analysis channels
OwnChannels(f) == <<f.higgs, f.electron, f.photon, f.higgsVel, f.electronVel, f.photonVel>>
AnalysisChannels(f) == <<f.orchCoherence, f.orchFlash, f.phi>>

\* what holds of every writer but the preset reset: a field step leaves the
\* analysis channels alone, an analysis step leaves amplitudes and
\* velocities alone, and a pool update changes nothing but coherence, which
\* it raises by 0.4 per annihilation at the cell, capped at 1
WritersKeepToTheirChannels ==
  /\ hist'.op = "fieldUpdate" => AnalysisChannels(field') = AnalysisChannels(field)
  /\ hist'.op = "analysis" => OwnChannels(field') = OwnChannels(field)
  /\ hist'.op = "update" =>
       /\ OwnChannels(field') = OwnChannels(field)
       /\ field'.orchFlash = field.orchFlash /\ field'.phi = field.phi
       /\ \A i \in Cells :
            field'.orchCoherence[i] =
              IF BoostsAt(hist'.log, i) = 0 THEN field.orchCoherence[i]
              ELSE Min(Q(1, 1), field.orchCoherence[i] + Q(4, 10) * BoostsAt(hist'.log, i))

---------------------------------------------------------------------------
(* applyMode *)

\* C17: the step that applyMode is leaves the active set empty and every
\* slot in the free list exactly once, makes the amplitudes and velocities
\* those of the selected preset whatever the field held before, and leaves
\* the simulation running; it is a single step taken between frames
C17_ResetIsComplete ==
  [][hist'.op = "applyMode" =>
       /\ particles'.active = << >>
       /\ Len(particles'.freeList) = MAX
       /\ SeqToSet(particles'.freeList) = Slots
       /\ \E s0, s \in Streams :
            OwnChannels(field') = OwnChannels(FieldInit(QuantumField(s0), guiState.mode, s))
       /\ simRunning'
       /\ pc = "idle" /\ pc' = "idle"]_vars

\* a preset other than 'loop' applied while slots were allocated
C17_Witness ==
  /\ hist.op = "applyMode"
  /\ hist.free < MAX
  /\ guiState.mode \in {"bigbang", "antimatter"}
  /\ particles.active = << >>

---------------------------------------------------------------------------
(* Natural death *)

\* the slots named by the forced annihilations an update collected
ForcedSlots(toAnnihilate) ==
  { toAnnihilate[n].a : n \in { m \in 1..Len(toAnnihilate) : toAnnihilate[m].doFlash } }
  \cup { toAnnihilate[n].b : n \in { m \in 1..Len(toAnnihilate) : toAnnihilate[m].doFlash } }

---------------------------------------------------------------------------
(* The Higgs gradient force *)

\* the centred difference of the higgs channel at the cell nearest to
\* (wx, wy, wz), its six neighbours taken modulo N
PeriodicGrad(f, wx, wy, wz) ==
  LET c == Coords(NearestCell(wx, wy, wz))
      h == f.higgs
  IN << TDiv(h[Idx(c[1] + 1, c[2], c[3])] - h[Idx(c[1] - 1, c[2], c[3])], 2),
        TDiv(h[Idx(c[1], c[2] + 1, c[3])] - h[Idx(c[1], c[2] - 1, c[3])], 2),
        TDiv(h[Idx(c[1], c[2], c[3] + 1)] - h[Idx(c[1], c[2], c[3] - 1)], 2) >>

\* C19 as stated: the velocity an update gives a slot it moved is the one
\* the periodic centred difference at the slot's nearest cell produces,
\* also for a slot in a cell on a lattice face
C19_AsStated ==
  [][(hist'.op = "update" /\ ops' = ops + 1) =>
       \A i \in SeqToSet(particles.active) :
         particles'.age[i] = particles.age[i] + hist'.dt =>
           <<particles'.vx[i], particles'.vy[i], particles'.vz[i]>>
             = NewVelocity(particles, i, hist'.dt,
                           PeriodicGrad(field, particles.px[i], particles.py[i],
                                        particles.pz[i]))]_vars

---------------------------------------------------------------------------
(* Periodic neighbours *)

\* the cell of integer coordinates taken modulo N
PeriodicIndex(x, y, z) == (x % N) + (y % N) * N + (z % N) * N2

\* the six neighbours of (x, y, z) taken modulo N, in the order +x -x +y -y +z -z
PeriodicNeighbours(x, y, z) ==
  << PeriodicIndex(x + 1, y, z), PeriodicIndex(x - 1, y, z),
     PeriodicIndex(x, y + 1, z), PeriodicIndex(x, y - 1, z),
     PeriodicIndex(x, y, z + 1), PeriodicIndex(x, y, z - 1) >>

\* the sum of the channel a over the six periodic neighbours of (x, y, z)
\* minus six times its value there
PeriodicLaplacian(a, x, y, z) ==
  a[PeriodicNeighbours(x, y, z)[1]] + a[PeriodicNeighbours(x, y, z)[2]]
  + a[PeriodicNeighbours(x, y, z)[3]] + a[PeriodicNeighbours(x, y, z)[4]]
  + a[PeriodicNeighbours(x, y, z)[5]] + a[PeriodicNeighbours(x, y, z)[6]]
  - 6 * a[PeriodicIndex(x, y, z)]

\* coordinates from more than a lattice width below 0 to more than one above N-1
AnyCoords == (0 - N - 1) .. (2 * N)

Amplitudes(f) == << f.higgs, f.electron, f.photon >>

Uniform(a) == \A i \in Cells : a[i] = a[0]

\* C20: idx maps any integer coordinates, negative or N and above, to the
\* cell of those coordinates modulo N; at every cell, face cells included,
\* the Laplacian of each amplitude channel is the sum over the six
\* neighbours modulo N minus six times the centre, and the neighbours the
\* Phi computation looks up are those six cells; so the Laplacian of a
\* uniform channel is 0 everywhere
C20_NeighboursWrap ==
  /\ \A x, y, z \in AnyCoords :
       Idx(x, y, z) \in Cells /\ Idx(x, y, z) = PeriodicIndex(x, y, z)
  /\ \A x, y, z \in 0..(N - 1) :
       /\ [k \in 1..6 |-> Neighbors(x, y, z)[k][1] + Neighbors(x, y, z)[k][2] * N
                          + Neighbors(x, y, z)[k][3] * N2]
            = PeriodicNeighbours(x, y, z)
       /\ \A c \in 1..3 :
            Laplacian(Amplitudes(field)[c], x, y, z)
              = PeriodicLaplacian(Amplitudes(field)[c], x, y, z)
  /\ \A c \in 1..3 :
       Uniform(Amplitudes(field)[c]) =>
         \A x, y, z \in 0..(N - 1) : Laplacian(Amplitudes(field)[c], x, y, z) = 0

\* after a field update: a channel that differs across a lattice face from
\* the cell on the opposite face, next to a uniform channel that is not zero
C20_Witness ==
  /\ hist.op = "fieldUpdate"
  /\ \E c \in 1..3, y, z \in 0..(N - 1) :
       Amplitudes(field)[c][Idx(0, y, z)] # Amplitudes(field)[c][Idx(N - 1, y, z)]
  /\ \E c \in 1..3 : Uniform(Amplitudes(field)[c]) /\ Amplitudes(field)[c][0] # 0

---------------------------------------------------------------------------
(* The heart attractor at strength 0 *)

\* the field step without its heart attractor: no random stream and no
\* heart array enters it
StepWithoutHeart(f, dt) ==
  ClampField(VerletVelocities(VerletPositions(f, Accelerations(f), dt), Accelerations(f), dt))

\* C21: a field update at heart strength 0 draws no random number and
\* leaves the field that the step without the heart attractor leaves,
\* whatever the random stream: a function of the field and dt alone
C21_NoHeartNoRandomness ==
  [][(hist'.op = "fieldUpdate" /\ field.heartStrength = 0) =>
       /\ field' = StepWithoutHeart(field, hist'.dt)
       /\ \A s \in Streams :
            /\ FieldUpdate(field, hist'.dt, s) = field'
            /\ FieldUpdateDraws(field, hist'.dt, s) = 0]_vars

\* a field update at strength 0 that left a cell of the heart surface with
\* a velocity
C21_Witness ==
  /\ hist.op = "fieldUpdate"
  /\ field.heartStrength = 0
  /\ \E i \in SeqToSet(HeartSurfaceCells) : field.electronVel[i] # 0

---------------------------------------------------------------------------
(* The driver's completion check *)

\* C22 as stated: the driver stops only at the end of a frame in which the
\* preset applied is not 'loop', no slot is active and the field is
\* quiescent; while stopped no step runs and no time is accumulated, until
\* applyMode, which always leaves the driver running
C22_AsStated ==
  [][/\ (simRunning /\ ~simRunning') =>
          /\ hist'.op = "frame"
          /\ applied # "loop" /\ AllDead(particles) /\ IsQuiescent(field)
     /\ (~simRunning /\ hist'.op # "applyMode") =>
          /\ ~simRunning'
          /\ field' = field /\ particles' = particles
          /\ accumDt' = accumDt /\ frameCount' = frameCount /\ consFrameAcc' = consFrameAcc
     /\ hist'.op = "applyMode" => simRunning']_vars

\* C25 as stated: while the preset last applied is 'loop' the driver is
\* running, whatever the mode selector holds
C25_AsStated == applied = "loop" => simRunning

---------------------------------------------------------------------------
(* Injected pairs *)

\* the spawnPair attempts of an update(dt) of the pool p
SpawnAttempts(p, dt) == (p.spawnAccum + p.injectionRate * dt) \div AccumOne

---------------------------------------------------------------------------
(* The free list and the active set *)

\* C24: the free list and the active set partition the slots: no index
\* occurs twice in the free list, none is both free and active, and the
\* two together hold each of the MAX slots
C24_FreeAndActivePartition ==
  /\ Cardinality(SeqToSet(particles.freeList)) = Len(particles.freeList)
  /\ Cardinality(ActiveSet) = Len(particles.active)
  /\ SeqToSet(particles.freeList) \cap ActiveSet = {}
  /\ SeqToSet(particles.freeList) \cup ActiveSet = Slots
  /\ Len(particles.freeList) + Len(particles.active) = MAX

\* an update that processed two entries or more and left the pool partly
\* allocated
C24_Witness ==
  /\ hist.op = "update"
  /\ Len(hist.toAnnihilate) >= 2
  /\ Len(particles.freeList) > 0
  /\ Len(particles.active) > 0

---------------------------------------------------------------------------
(* Slots outside the active set *)

\* C26 as stated: every slot outside the active set has type inactive,
\* alpha 0 and both relation fields -1
C26_AsStated ==
  \A i \in Slots \ ActiveSet :
    /\ particles.type[i] = TYPE_INACTIVE
    /\ particles.alpha[i] = 0
    /\ particles.pairWith[i] = -1
    /\ particles.entangledWith[i] = -1

---------------------------------------------------------------------------
(* The ring of annihilation flashes *)

\* C27: every forced annihilation of an update writes one record, its
\* midpoint with age 0 and intensity 1, at the slot (annihilations before
\* it) mod MAX_FLASHES; the head advances by one per annihilating pair, each
\* pair being listed once; at the end of the call a slot written by the call
\* holds the last record written to it, aged by the call's dt; the ring
\* keeps its MAX_FLASHES entries, and no other operation touches it
C27_OneRecordPerAnnihilation ==
  [][ops' = ops + 1 =>
       /\ Len(particles'.annihilationFlashes) = MAX_FLASHES
       /\ hist'.op # "update" =>
            /\ particles'.flashHead = particles.flashHead
            /\ particles'.annihilationFlashes = particles.annihilationFlashes
       /\ hist'.op = "update" =>
            /\ particles'.flashHead = particles.flashHead + Len(hist'.log)
            /\ Len(hist'.log) = Len(ForcedNext)
            /\ \A n, k \in 1..Len(ForcedNext) :
                 n # k => {ForcedNext[n].a, ForcedNext[n].b} \cap {ForcedNext[k].a, ForcedNext[k].b} = {}
            /\ \A n \in 1..Len(hist'.log) :
                 /\ hist'.log[n].head = particles.flashHead + n - 1
                 /\ hist'.log[n].flash
                      = [x |-> hist'.log[n].m[1], y |-> hist'.log[n].m[2], z |-> hist'.log[n].m[3],
                         age |-> 0, intensity |-> Q(1, 1)]
                 /\ n + MAX_FLASHES > Len(hist'.log) =>
                      particles'.annihilationFlashes[(hist'.log[n].head % MAX_FLASHES) + 1]
                        = [hist'.log[n].flash EXCEPT !.age = hist'.dt]
            /\ \A q \in 1..MAX_FLASHES :
                 (\A n \in 1..Len(hist'.log) : (hist'.log[n].head % MAX_FLASHES) + 1 # q) =>
                   /\ particles'.annihilationFlashes[q].x = particles.annihilationFlashes[q].x
                   /\ particles'.annihilationFlashes[q].intensity
                        = particles.annihilationFlashes[q].intensity]_vars

\* an update with more annihilations than the ring has slots, after an
\* earlier annihilation had advanced the head
C27_Witness ==
  /\ hist.op = "update"
  /\ Len(hist.log) > MAX_FLASHES
  /\ hist.log[1].head > 0

---------------------------------------------------------------------------
(* The spawn accumulator *)

---------------------------------------------------------------------------
(* The phases of the field step *)

\* the three accelerations of cell i when the amplitude channels are h, e, p
\* everywhere and the velocities are pv, ev
AccelerationAt(h, e, p, pv, ev, i) ==
  << AccHiggs(PeriodicLaplacian(h, Coords(i)[1], Coords(i)[2], Coords(i)[3]), h[i], e[i]),
     AccElectron(PeriodicLaplacian(e, Coords(i)[1], Coords(i)[2], Coords(i)[3]), h[i], e[i]),
     AccPhoton(PeriodicLaplacian(p, Coords(i)[1], Coords(i)[2], Coords(i)[3]), pv[i], ev[i]) >>

\* the amplitude x + v dt + a dt^2 / 2
Advanced(x, v, a, dt) == x + MulDt(v, dt) + MulDt2Half(a, dt)

\* the velocity v + (a_old + a_new) dt / 2
Kicked(v, aOld, aNew, dt) == v + MulDtHalf(aOld + aNew, dt)

\* C29: a field step is velocity-Verlet over the whole lattice: the old
\* accelerations of all cells come from the amplitudes before the step; all
\* amplitudes advance by v dt + a_old dt^2 / 2; the new acceleration of every
\* cell, neighbour terms included, comes from the advanced amplitudes of all
\* cells; the velocities advance by (a_old + a_new) dt / 2; the heart
\* attractor and the clamp act on the result
C29_VerletPhases ==
  [][hist'.op = "fieldUpdate" =>
       LET dt == hist'.dt
           old == Stored([i \in Cells |->
                            AccelerationAt(field.higgs, field.electron, field.photon,
                                           field.photonVel, field.electronVel, i)])
           h1 == Stored([i \in Cells |->
                           Advanced(field.higgs[i], field.higgsVel[i], old[i][1], dt)])
           e1 == Stored([i \in Cells |->
                           Advanced(field.electron[i], field.electronVel[i], old[i][2], dt)])
           p1 == Stored([i \in Cells |->
                           Advanced(field.photon[i], field.photonVel[i], old[i][3], dt)])
           new == Stored([i \in Cells |->
                            AccelerationAt(h1, e1, p1, field.photonVel, field.electronVel, i)])
           stepped == [field EXCEPT
                         !.higgs = h1, !.electron = e1, !.photon = p1,
                         !.higgsVel = [i \in Cells |-> Kicked(@[i], old[i][1], new[i][1], dt)],
                         !.electronVel = [i \in Cells |-> Kicked(@[i], old[i][2], new[i][2], dt)],
                         !.photonVel = [i \in Cells |-> Kicked(@[i], old[i][3], new[i][3], dt)]]
       IN \E s \in Streams : field' = ClampField(HeartAttractor(stepped, dt, s))]_vars

\* after a second long field step: a cell that moves in two channels while
\* its neighbours differ from it in both
C29_Witness ==
  /\ hist.op = "fieldUpdate" /\ hist.dt = 2000
  /\ ops >= 2
  /\ \E i \in Cells :
       /\ field.higgsVel[i] # 0 /\ field.electronVel[i] # 0
       /\ PeriodicLaplacian(field.higgs, Coords(i)[1], Coords(i)[2], Coords(i)[3]) # 0
       /\ PeriodicLaplacian(field.electron, Coords(i)[1], Coords(i)[2], Coords(i)[3]) # 0

---------------------------------------------------------------------------
(* The side effects of a death *)

\* the entries of the update just made that are natural deaths
NaturalNext == SelectSeq(hist'.toAnnihilate, LAMBDA e : ~e.doFlash)

\* the photons active after the step that are not the photons of before,
\* aged by dt in their slots
PhotonsBorn(dt) ==
  { i \in SeqToSet(particles'.active) :
      /\ particles'.type[i] = TYPE_PHOTON
      /\ ~(/\ i \in SeqToSet(particles.active)
           /\ particles.type[i] = TYPE_PHOTON
           /\ particles'.age[i] = particles.age[i] + dt) }

\* the cells whose coherence the step changed
CellsBoosted == { c \in Cells : field'.orchCoherence[c] # field.orchCoherence[c] }

\* C30: natural deaths have no effect besides freeing their slots: an update
\* whose deaths are all natural creates no photon, leaves the head of the
\* flash ring and every cell's coherence unchanged and only ages the ring's
\* records; beside forced annihilations, natural deaths add nothing to the
\* three photons, one record and one boosted cell of each annihilation
C30_NaturalDeathOnlyFrees ==
  [][(hist'.op = "update" /\ ops' = ops + 1) =>
       /\ Len(ForcedNext) = 0 =>
            /\ PhotonsBorn(hist'.dt) = {}
            /\ particles'.flashHead = particles.flashHead
            /\ particles'.annihilationFlashes = AgeFlashes(particles, hist'.dt).annihilationFlashes
            /\ field'.orchCoherence = field.orchCoherence
       /\ Cardinality(PhotonsBorn(hist'.dt)) <= 3 * Len(ForcedNext)
       /\ particles'.flashHead - particles.flashHead = Len(ForcedNext)
       /\ Cardinality(CellsBoosted) <= Len(ForcedNext)
       /\ \A n \in 1..Len(NaturalNext) :
            NaturalNext[n].a \notin SeqToSet(particles'.active) \ PhotonsBorn(hist'.dt)]_vars

\* an update whose only deaths were natural, one of them with its partner
\* still active, after an earlier annihilation had written the ring and
\* boosted a cell
C30_Witness ==
  /\ hist.op = "update"
  /\ Len(Forced) = 0
  /\ \E n \in 1..Len(hist.toAnnihilate) : hist.toAnnihilate[n].b # -1
  /\ particles.flashHead > 0
  /\ \E c \in Cells : field.orchCoherence[c] > 0

====
